---- MODULE Spec2Model ----
(***************************************************************************)
(* ModeratorBot: the sliding-window rate limiter (src/src/rate_limiter.py), *)
(* the violation ledger (src/src/database.py), the escalation policy        *)
(* (src/config/settings.py) and the moderation manager                      *)
(* (src/src/moderation.py).                                                 *)
(*                                                                          *)
(* Scheduling.  All code runs on one asyncio event loop: a task runs until  *)
(* it reaches an await that really suspends (database I/O, a Telegram call, *)
(* a lock that is held).  No rate limiter method awaits inside its critical *)
(* section, so its lock is free whenever a task reaches it, and             *)
(* `async with self._lock` on a free asyncio.Lock does not suspend: every   *)
(* rate limiter method runs from its clock read to its return without       *)
(* interruption and is one action here.  The database lock and the          *)
(* notification lock are held across awaits and are modelled explicitly.    *)
(*                                                                          *)
(* Time.  `now` is the clock (time.time() and datetime.utcnow() alike) in   *)
(* abstract ticks; several events may share one tick (clock resolution).    *)
(***************************************************************************)
EXTENDS Integers, Sequences, FiniteSets, TLC

\* ------------------------------------------------------------- bounds
MaxTime == 4
MaxCalls == 4
MaxClock == 1
MaxEscalations == 2
MaxRestarts == 1
MaxLadder == 2
MaxOrdinal == 5
MaxLedgerClock == 2
MaxRows == 3
MaxLookback == 2
MaxAdminClock == 1
MaxIsolationClock == 2

\* ------------------------------------------------------ configuration
\* Config.antiflood_window_seconds / antiflood_max_messages: read from the
\* environment at start-up; the model runs a deployment with small values.
antiflood_window_seconds == 2
antiflood_max_messages == 2

admin_ids == <<3, 5>>
whitelisted_users == <<4>>

is_admin(user_id) == \E i \in DOMAIN admin_ids : admin_ids[i] = user_id

is_whitelisted(user_id) == \E i \in DOMAIN whitelisted_users : whitelisted_users[i] = user_id

\* ESCALATION_DURATIONS, minutes (the default ladder).
escalation_durations == <<60, 360, 1440, 10080>>

\* NOTIFICATION_CHAT is unset.
notification_chat == "None"

is_exempt_from_rate_limit(user_id) == is_admin(user_id) \/ is_whitelisted(user_id)

\* The actors (user_id, chat_id): two users in one chat, one user in two
\* chats, and a whitelisted user.
Actors == {<<1, 1>>, <<2, 1>>, <<1, 2>>, <<4, 1>>}

\* The actors whose calls reach the rate limiter in SpecTracker.
TrackerActors == {<<1, 1>>, <<2, 1>>, <<4, 1>>}

None == "None"

\* An asyncio.Lock nobody holds.
NoTask == 0

VARIABLES
    now,              \* the clock
    message_history,  \* RateLimiter._message_history: (chat_id, user_id) -> timestamps
    recorded,         \* history: per actor, its check_rate_limit calls since its
                      \* last reset, in order, as [t, exceeded], never pruned
    ncalls,           \* history: number of recorded check_rate_limit calls so far
    last,             \* history: the rate limiter call made at the current instant,
                      \* if any, and what it returned
    notify_admins,    \* Config.notify_admins (NOTIFY_ADMINS), fixed at start-up
    ledger,           \* the rows of table user_violations
    nextId,           \* the next AUTOINCREMENT id
    dbLock,           \* Database._lock: the task holding it, or None
    notifLock,        \* ModerationManager._notification_lock: its holder, or None
    pc,               \* per task: the await at which it is suspended
    frame,            \* per task: the locals of its invocation, and as history
                      \* what the invocation has done so far
    ret,              \* per task: what its invocation returned or raised
    started,          \* history: number of escalations begun
    restarts,         \* history: number of times the process was restarted
    policy,           \* Config.escalation_durations and, as history, the
                      \* get_mute_duration calls made on it with their results
    dbcall            \* history: the last Database method called on its own,
                      \* its arguments and what it returned

trackerVars == <<recorded, ncalls, last, restarts>>

coordVars == <<notify_admins, ledger, nextId, dbLock, notifLock, pc, frame, ret,
               started>>

directVars == <<policy, dbcall>>

vars == <<now, message_history, trackerVars, coordVars, directVars>>

\* ------------------------------------------------- rate limiter (pure)
\* defaultdict(list): reading a missing key yields the empty list.
HistoryOf(h, key) == IF key \in DOMAIN h THEN h[key] ELSE <<>>

SetKey(h, key, ts) == [k \in DOMAIN h \cup {key} |-> IF k = key THEN ts ELSE h[k]]

DelKey(h, key) == [k \in DOMAIN h \ {key} |-> h[k]]

\* [timestamp for timestamp in ... if timestamp > cutoff_time]
Prune(ts, cutoff_time) == SelectSeq(ts, LAMBDA timestamp : timestamp > cutoff_time)

MutRecordReplaces(ts, current_time, window, max_messages) ==
    LET kept == IF Prune(ts, current_time - window) = <<>> THEN <<current_time>>
                ELSE Prune(ts, current_time - window)
    IN  [ts |-> kept, exceeded |-> Len(kept) > max_messages]

MutRecordPrepends(ts, current_time, window, max_messages) ==
    LET kept == <<current_time>> \o Prune(ts, current_time - window)
    IN  [ts |-> kept, exceeded |-> Len(kept) > max_messages]

MutExceededAtLimit(ts, current_time, window, max_messages) ==
    LET kept == Append(Prune(ts, current_time - window), current_time)
    IN  [ts |-> kept, exceeded |-> Len(kept) >= max_messages]

\* The critical section of check_rate_limit on one key's list: prune, append
\* the current message, compare the count with the threshold.
record(ts, current_time, window, max_messages) ==
    LET kept == Append(Prune(ts, current_time - window), current_time)
    IN  [ts |-> kept, exceeded |-> Len(kept) > max_messages]

MutCheckIgnoresExemption(h, user_id, chat_id, current_time) ==
    LET key == <<chat_id, user_id>>
        r == record(HistoryOf(h, key), current_time,
                    antiflood_window_seconds, antiflood_max_messages)
    IN  [history |-> SetKey(h, key, r.ts), result |-> r.exceeded]

MutCheckKeyedByUser(h, user_id, chat_id, current_time) ==
    IF is_exempt_from_rate_limit(user_id)
    THEN [history |-> h, result |-> FALSE]
    ELSE LET key == <<0, user_id>>
             r == record(HistoryOf(h, key), current_time,
                         antiflood_window_seconds, antiflood_max_messages)
         IN  [history |-> SetKey(h, key, r.ts), result |-> r.exceeded]

check_rate_limit(h, user_id, chat_id, current_time) ==
    IF is_exempt_from_rate_limit(user_id)
    THEN [history |-> h, result |-> FALSE]
    ELSE LET key == <<chat_id, user_id>>
             r == record(HistoryOf(h, key), current_time,
                         antiflood_window_seconds, antiflood_max_messages)
         IN  [history |-> SetKey(h, key, r.ts), result |-> r.exceeded]

add_message(h, user_id, chat_id, current_time) ==
    check_rate_limit(h, user_id, chat_id, current_time)

MutCountKeepsBoundary(h, user_id, chat_id, current_time) ==
    LET key == <<chat_id, user_id>>
        kept == SelectSeq(HistoryOf(h, key),
                          LAMBDA t : t >= current_time - antiflood_window_seconds)
    IN  [history |-> SetKey(h, key, kept), result |-> Len(kept)]

get_message_count(h, user_id, chat_id, current_time) ==
    LET key == <<chat_id, user_id>>
        kept == Prune(HistoryOf(h, key), current_time - antiflood_window_seconds)
    IN  [history |-> SetKey(h, key, kept), result |-> Len(kept)]

MutResetKeepsNewest(h, user_id, chat_id) ==
    LET key == <<chat_id, user_id>>
    IN  IF key \in DOMAIN h /\ h[key] # <<>>
        THEN SetKey(h, key, <<h[key][Len(h[key])]>>) ELSE h

reset_user_history(h, user_id, chat_id) ==
    LET key == <<chat_id, user_id>>
    IN  IF key \in DOMAIN h THEN DelKey(h, key) ELSE h

MutCleanupHalfWindow(h, current_time) ==
    LET cutoff_time == current_time - antiflood_window_seconds \div 2
        keep == {k \in DOMAIN h : Prune(h[k], cutoff_time) # <<>>}
    IN  [k \in keep |-> Prune(h[k], cutoff_time)]

MutCleanupKeepsEmptyKeys(h, current_time) ==
    LET cutoff_time == current_time - antiflood_window_seconds * 2
    IN  [k \in DOMAIN h |-> Prune(h[k], cutoff_time)]

cleanup_old_entries(h, current_time) ==
    LET cutoff_time == current_time - antiflood_window_seconds * 2
        keep == {k \in DOMAIN h : Prune(h[k], cutoff_time) # <<>>}
    IN  [k \in keep |-> Prune(h[k], cutoff_time)]

\* sum(len(timestamps) for timestamps in self._message_history.values())
RECURSIVE SumLen(_, _)
SumLen(h, keys) ==
    IF keys = {} THEN 0
    ELSE LET k == CHOOSE x \in keys : TRUE
         IN  Len(h[k]) + SumLen(h, keys \ {k})

get_stats(h) ==
    [tracked_users |-> Cardinality(DOMAIN h),
     total_messages_in_window |-> SumLen(h, DOMAIN h)]

\* ---------------------------------------------------------------- init
NoCall == [op |-> "none", user_id |-> 0, chat_id |-> 0, result |-> None]

\* The tasks that run ModerationManager coroutines concurrently.
Tasks == {1, 2}

\* The locals of handle_message / manual_mute and of the calls they make.
\* History fields: reads (ledger queries made), mute (the outcome of the
\* bot.restrict_chat_member call: "none" while it has not been made, "ok", or
\* the error text), notified and notify_args (the _notify_admins_of_mute
\* calls made and their arguments), delivered (the chats a notification
\* reached), writes (rows the invocation stored or changed), lifted (the
\* outcome of unmute_user's bot.restrict_chat_member call).
NoArgs == [user_id |-> 0, chat_id |-> 0, violation_count |-> 0,
           duration_minutes |-> 0, username |-> None]

NoFrame == [op |-> "none", user_id |-> 0, chat_id |-> 0, exceeded |-> FALSE,
            cutoff |-> 0, violation_count |-> 0, duration |-> 0, timestamp |-> 0,
            violation_id |-> 0, raised |-> None, username |-> None,
            mute |-> "none", pending |-> <<>>, reads |-> 0, notified |-> 0,
            notify_args |-> NoArgs, delivered |-> {}, writes |-> 0,
            lifted |-> "none"]

ReturnNone == [action |-> None]

NoDbCall == [op |-> "none"]

\* Everything but the ladder, which start-up reads from the environment.
InitButLadder ==
    /\ now = 0
    /\ message_history = <<>>
    /\ recorded = [a \in Actors |-> <<>>]
    /\ ncalls = 0
    /\ last = NoCall
    /\ notify_admins \in BOOLEAN
    /\ ledger = {}
    /\ nextId = 1
    /\ dbLock = NoTask
    /\ notifLock = NoTask
    /\ pc = [p \in Tasks |-> "idle"]
    /\ frame = [p \in Tasks |-> NoFrame]
    /\ ret = [p \in Tasks |-> ReturnNone]
    /\ started = 0
    /\ restarts = 0
    /\ dbcall = NoDbCall

\* The deployment the moderation manager is run in: the default ladder.
Init ==
    /\ InitButLadder
    /\ policy = [durations |-> escalation_durations, calls |-> {}]

TrackerInit == Init /\ notify_admins = TRUE

\* ------------------------------------------------------------- actions
Tick ==
    /\ now < MaxTime
    /\ now' = now + 1
    /\ last' = NoCall
    /\ UNCHANGED <<message_history, recorded, ncalls, restarts, coordVars, directVars>>

CheckRateLimit(user_id, chat_id) ==
    LET r == check_rate_limit(message_history, user_id, chat_id, now)
        exempt == is_exempt_from_rate_limit(user_id)
    IN  /\ exempt \/ ncalls < MaxCalls
        /\ message_history' = r.history
        /\ last' = [op |-> "check", user_id |-> user_id, chat_id |-> chat_id,
                    result |-> r.result]
        /\ recorded' = IF exempt THEN recorded
                       ELSE [recorded EXCEPT ![<<user_id, chat_id>>] =
                                Append(@, [t |-> now, exceeded |-> r.result])]
        /\ ncalls' = IF exempt THEN ncalls ELSE ncalls + 1
        /\ UNCHANGED <<now, restarts, coordVars, directVars>>

\* The field after_reset of last is history: the call before this one was a
\* reset_user_history of the same actor that deleted a stored list.
GetMessageCount(user_id, chat_id) ==
    LET r == get_message_count(message_history, user_id, chat_id, now)
    IN  /\ message_history' = r.history
        /\ last' = [op |-> "count", user_id |-> user_id, chat_id |-> chat_id,
                    result |-> r.result,
                    after_reset |-> /\ last.op = "reset"
                                    /\ last.user_id = user_id
                                    /\ last.chat_id = chat_id
                                    /\ last.dropped > 0]
        /\ UNCHANGED <<now, recorded, ncalls, restarts, coordVars, directVars>>

\* The field dropped of last is history: how many timestamps the call
\* deleted.
ResetUserHistory(user_id, chat_id) ==
    /\ message_history' = reset_user_history(message_history, user_id, chat_id)
    /\ recorded' = [recorded EXCEPT ![<<user_id, chat_id>>] = <<>>]
    /\ last' = [op |-> "reset", user_id |-> user_id, chat_id |-> chat_id,
                result |-> None,
                dropped |-> Len(HistoryOf(message_history, <<chat_id, user_id>>))]
    /\ UNCHANGED <<now, ncalls, restarts, coordVars, directVars>>

\* The fields dropped and evicted of last are history: how many timestamps
\* and how many keys the sweep removed.
CleanupOldEntries ==
    /\ message_history' = cleanup_old_entries(message_history, now)
    /\ last' = [op |-> "cleanup", user_id |-> 0, chat_id |-> 0, result |-> None,
                dropped |-> SumLen(message_history, DOMAIN message_history)
                              - SumLen(message_history', DOMAIN message_history'),
                evicted |-> Cardinality(DOMAIN message_history
                                          \ DOMAIN message_history')]
    /\ UNCHANGED <<now, recorded, ncalls, restarts, coordVars, directVars>>

TrackerNext ==
    \/ Tick
    \/ \E a \in TrackerActors : CheckRateLimit(a[1], a[2])
    \/ \E a \in TrackerActors : GetMessageCount(a[1], a[2])
    \/ \E a \in TrackerActors : ResetUserHistory(a[1], a[2])
    \/ CleanupOldEntries

SpecTracker == TrackerInit /\ [][TrackerNext]_vars

\* Three actors that share a chat or a user: the calls of one beside the
\* stored lists of the others.
IsolationActors == {<<1, 1>>, <<2, 1>>, <<1, 2>>}

IsolationTick == now < MaxIsolationClock /\ Tick

IsolationNext ==
    \/ IsolationTick
    \/ \E a \in IsolationActors : CheckRateLimit(a[1], a[2])
    \/ \E a \in IsolationActors : GetMessageCount(a[1], a[2])
    \/ \E a \in IsolationActors : ResetUserHistory(a[1], a[2])

SpecIsolation == TrackerInit /\ [][IsolationNext]_vars

\* ------------------------------------------------ rate limiter claims
Key(a) == <<a[2], a[1]>>

Timestamps(log) == [i \in DOMAIN log |-> log[i].t]

\* Of the first k logged calls, those whose timestamp is inside the window
\* that ends at the k-th call.
InWindowUpTo(log, k) ==
    Cardinality({i \in 1..k : log[i].t > log[k].t - antiflood_window_seconds})

\* Of all logged calls, those whose timestamp is inside the window ending at t.
InWindowAt(log, t) == {i \in DOMAIN log : log[i].t > t - antiflood_window_seconds}

NumExceeded(log) == Cardinality({i \in DOMAIN log : log[i].exceeded})

Max(x, y) == IF x >= y THEN x ELSE y

\* record applied to an empty list once per element of `times`, in order.
RECURSIVE RecordAll(_, _, _, _, _)
RecordAll(ts, times, window, max_messages, results) ==
    IF times = <<>> THEN [ts |-> ts, results |-> results]
    ELSE LET r == record(ts, Head(times), window, max_messages)
         IN  RecordAll(r.ts, Tail(times), window, max_messages,
                       Append(results, r.exceeded))

\* C1: for one non-exempt actor, the k-th check_rate_limit call returns True
\* iff the number of its calls up to and including the k-th whose timestamp
\* is inside the window ending at that call exceeds the threshold; when calls
\* 1..k share one window the k-th returns True iff k > threshold.  Scenario A:
\* window 10, threshold 5, calls at t = 0..5 return F,F,F,F,F,T.
C1_ExceededIffOverThreshold ==
    /\ \A a \in TrackerActors : \A k \in 1..Len(recorded[a]) :
          /\ recorded[a][k].exceeded <=>
                InWindowUpTo(recorded[a], k) > antiflood_max_messages
          /\ recorded[a][1].t > recorded[a][k].t - antiflood_window_seconds
                => (recorded[a][k].exceeded <=> k > antiflood_max_messages)
    /\ last.op = "check" /\ ~is_exempt_from_rate_limit(last.user_id)
          => LET log == recorded[<<last.user_id, last.chat_id>>]
             IN  log # <<>> /\ last.result = log[Len(log)].exceeded
    /\ RecordAll(<<>>, <<0, 1, 2, 3, 4, 5>>, 10, 5, <<>>).results
          = <<FALSE, FALSE, FALSE, FALSE, FALSE, TRUE>>

\* An actor whose third call tripped the limit and whose fourth call, made
\* after the first three expired, did not.
C1_Witness ==
    \E a \in TrackerActors :
        /\ Len(recorded[a]) = antiflood_max_messages + 2
        /\ recorded[a][antiflood_max_messages + 1].exceeded
        /\ ~recorded[a][antiflood_max_messages + 2].exceeded

\* C2: a check_rate_limit call for an exempt actor returns False and leaves
\* the rate limiter's map as it was (no key created, no timestamp stored), so
\* no timestamp is ever stored for an exempt actor.
C2_ExemptBypass ==
    /\ [](\A a \in TrackerActors : is_exempt_from_rate_limit(a[1])
              => HistoryOf(message_history, Key(a)) = <<>>)
    /\ [][last'.op = "check" /\ is_exempt_from_rate_limit(last'.user_id)
              => last'.result = FALSE /\ message_history' = message_history]_vars

C2_Witness ==
    /\ last.op = "check"
    /\ is_exempt_from_rate_limit(last.user_id)
    /\ last.result = FALSE
    /\ <<last.chat_id, last.user_id>> \notin DOMAIN message_history
    /\ ncalls >= antiflood_max_messages + 1

\* C3: get_message_count returns the number of the actor's recorded
\* timestamps t with t > now - window, and the stored sequence afterwards is
\* exactly those timestamps: nothing is appended.  Scenario B: window 10,
\* threshold 5, five records at t = 0 and one at t = 11: the last returns
\* False and the count right after is 1.
C3_CountIsInWindowCount ==
    /\ last.op = "count" =>
          LET a == <<last.user_id, last.chat_id>>
              inw == InWindowAt(recorded[a], now)
          IN  /\ last.result = Cardinality(inw)
              /\ HistoryOf(message_history, Key(a)) =
                    SelectSeq(Timestamps(recorded[a]),
                              LAMBDA t : t > now - antiflood_window_seconds)
    /\ LET r == RecordAll(<<>>, <<0, 0, 0, 0, 0, 11>>, 10, 5, <<>>)
       IN  /\ r.results[6] = FALSE
           /\ Len(Prune(r.ts, 11 - 10)) = 1

\* A probe that sees one event and leaves out another that is exactly one
\* window old.
C3_Witness ==
    /\ last.op = "count"
    /\ last.result >= 1
    /\ \E i \in DOMAIN recorded[<<last.user_id, last.chat_id>>] :
          recorded[<<last.user_id, last.chat_id>>][i].t = now - antiflood_window_seconds

\* C4: whatever the order in which the event loop runs the check_rate_limit
\* calls of concurrent tasks, no event is lost or counted twice: when all N
\* calls of an actor since its history was empty fall inside one window, its
\* stored sequence holds exactly those N timestamps and exactly
\* max(0, N - threshold) of the calls returned True.
C4_NoLostOrDoubleEvent ==
    \A a \in TrackerActors :
        (recorded[a] # <<>> /\ InWindowAt(recorded[a], now) = DOMAIN recorded[a])
        => /\ HistoryOf(message_history, Key(a)) = Timestamps(recorded[a])
           /\ NumExceeded(recorded[a]) =
                 Max(0, Len(recorded[a]) - antiflood_max_messages)

\* Two actors with calls inside the same window, one of them over the limit
\* with calls at two different instants.
C4_Witness ==
    \E a, b \in TrackerActors :
        /\ a # b
        /\ Len(recorded[a]) = antiflood_max_messages + 1
        /\ InWindowAt(recorded[a], now) = DOMAIN recorded[a]
        /\ recorded[a][1].t < recorded[a][Len(recorded[a])].t
        /\ NumExceeded(recorded[a]) = 1
        /\ recorded[b] # <<>>
        /\ InWindowAt(recorded[b], now) = DOMAIN recorded[b]

\* ------------------------------------------------------ ledger (pure)
\* datetime.isoformat() as the sequence of its character codes.  A tick is
\* half a second of the clock: the text is the two-digit count of seconds
\* and, only when the microsecond field is not zero, ".500000".  (The date
\* and hour fields before it are fixed-width and compare like the seconds.)
isoformat(t) ==
    LET second == (t + 40) \div 2
        microsecond == ((t + 40) % 2) * 500000
        digits == <<48 + (second \div 10), 48 + (second % 10)>>
    IN  IF microsecond = 0 THEN digits
        ELSE digits \o <<46, 53, 48, 48, 48, 48, 48>>

\* SQLite's comparison of two TEXT values (BINARY collation): a > b.
RECURSIVE TextGreater(_, _)
TextGreater(a, b) ==
    IF a = <<>> THEN FALSE
    ELSE IF b = <<>> THEN TRUE
    ELSE IF Head(a) # Head(b) THEN Head(a) > Head(b)
    ELSE TextGreater(Tail(a), Tail(b))

\* SQLite's a < b on TEXT values.
TextLess(a, b) == TextGreater(b, a)

\* The look-backs (days_back, hours_back, days_to_keep) the Database methods
\* are called with, in ticks.
Lookbacks == 0..MaxLookback

\* days_back = 30 of get_user_violation_count, in ticks.
days_back == 1

\* INSERT INTO user_violations: the row gets the next id; the statement fails
\* on UNIQUE(user_id, chat_id, timestamp).
UniqueConflict(rows, violation) ==
    \E r \in rows : /\ r.user_id = violation.user_id
                    /\ r.chat_id = violation.chat_id
                    /\ r.timestamp = isoformat(violation.timestamp)

MutAddViolationNoCommit(rows, id, violation) == rows

MutAddViolationReplaces(rows, id, violation) ==
    {r \in rows : r.user_id # violation.user_id \/ r.chat_id # violation.chat_id}
        \cup {[id |-> id,
                tick |-> violation.timestamp,
                run |-> violation.run,
                user_id |-> violation.user_id,
                chat_id |-> violation.chat_id,
                violation_type |-> violation.violation_type,
                timestamp |-> isoformat(violation.timestamp),
                mute_duration_minutes |-> violation.mute_duration_minutes,
                is_active |-> violation.is_active]}

\* The row's fields `tick` and `run` are history: the clock value its text
\* timestamp was formatted from, and the number of restarts before the
\* process that stored it.
add_violation(rows, id, violation) ==
    rows \cup {[id |-> id,
                tick |-> violation.timestamp,
                run |-> violation.run,
                user_id |-> violation.user_id,
                chat_id |-> violation.chat_id,
                violation_type |-> violation.violation_type,
                timestamp |-> isoformat(violation.timestamp),
                mute_duration_minutes |-> violation.mute_duration_minutes,
                is_active |-> violation.is_active]}

MutCountAtOrAfterCutoff(rows, user_id, chat_id, cutoff_date) ==
    Cardinality({r \in rows : /\ r.user_id = user_id
                              /\ r.chat_id = chat_id
                              /\ ~TextLess(r.timestamp, isoformat(cutoff_date))})

MutViolationCountActiveOnly(rows, user_id, chat_id, cutoff_date) ==
    Cardinality({r \in rows : /\ r.user_id = user_id
                              /\ r.chat_id = chat_id
                              /\ TextGreater(r.timestamp, isoformat(cutoff_date))
                              /\ r.is_active})

\* SELECT COUNT(*) ... WHERE user_id = ? AND chat_id = ? AND timestamp > ?
get_user_violation_count(rows, user_id, chat_id, cutoff_date) ==
    Cardinality({r \in rows : /\ r.user_id = user_id
                              /\ r.chat_id = chat_id
                              /\ TextGreater(r.timestamp, isoformat(cutoff_date))})

MutDeactivateAtCutoff(rows, cutoff_date) ==
    {IF r.is_active /\ ~TextGreater(r.timestamp, isoformat(cutoff_date))
     THEN [r EXCEPT !.is_active = FALSE] ELSE r : r \in rows}

MutDeactivateToggles(rows, cutoff_date) ==
    {IF TextLess(r.timestamp, isoformat(cutoff_date))
     THEN [r EXCEPT !.is_active = ~r.is_active] ELSE r : r \in rows}

\* UPDATE user_violations SET is_active = 0
\* WHERE timestamp < ? AND is_active = 1
deactivate_old_violations(rows, cutoff_date) ==
    {IF TextLess(r.timestamp, isoformat(cutoff_date)) /\ r.is_active
     THEN [r EXCEPT !.is_active = FALSE] ELSE r : r \in rows}

\* datetime.fromisoformat() on the text isoformat() produced: the seconds
\* field, and half a second more when a microsecond field follows.
fromisoformat(text) ==
    LET second == (text[1] - 48) * 10 + (text[2] - 48)
    IN  second * 2 + (IF Len(text) > 2 THEN 1 ELSE 0) - 40

\* SQLite's MAX() over TEXT values: the greatest under BINARY collation.
TextMax(texts) == CHOOSE a \in texts : \A b \in texts : ~TextGreater(b, a)

\* last_violation = None of UserStats; datetimes are ticks, never negative.
NoDatetime == -1

\* timedelta(hours=24) of get_user_stats, in ticks: a tick of the ledger's
\* clock is twelve hours.
recent_hours == 2

MinutesPerTick == 720

MutStatsCountsActiveOnly(rows, user_id, chat_id, current) ==
    LET mine == {r \in rows : r.user_id = user_id /\ r.chat_id = chat_id /\ r.is_active}
        recent == {r \in mine :
                      TextGreater(r.timestamp, isoformat(current - recent_hours))}
    IN  [user_id |-> user_id, chat_id |-> chat_id,
         total_violations |-> Cardinality(mine),
         last_violation |-> IF mine = {} THEN NoDatetime
                            ELSE fromisoformat(TextMax({r.timestamp : r \in mine})),
         is_currently_muted |-> Cardinality(recent) > 0]

MutStatsMutedIgnoresActive(rows, user_id, chat_id, current) ==
    LET mine == {r \in rows : r.user_id = user_id /\ r.chat_id = chat_id}
        recent == {r \in mine :
                      TextGreater(r.timestamp, isoformat(current - recent_hours))}
    IN  [user_id |-> user_id, chat_id |-> chat_id,
         total_violations |-> Cardinality(mine),
         last_violation |-> IF mine = {} THEN NoDatetime
                            ELSE fromisoformat(TextMax({r.timestamp : r \in mine})),
         is_currently_muted |-> Cardinality(recent) > 0]

\* SELECT COUNT(*), MAX(timestamp) ... WHERE user_id = ? AND chat_id = ?
\* SELECT COUNT(*) ... WHERE user_id = ? AND chat_id = ? AND timestamp > ?
\*                           AND is_active = 1
get_user_stats(rows, user_id, chat_id, current) ==
    LET mine == {r \in rows : r.user_id = user_id /\ r.chat_id = chat_id}
        recent_cutoff == current - recent_hours
        active_violations ==
            {r \in mine : TextGreater(r.timestamp, isoformat(recent_cutoff))
                          /\ r.is_active}
    IN  [user_id |-> user_id, chat_id |-> chat_id,
         total_violations |-> Cardinality(mine),
         last_violation |-> IF mine = {} THEN NoDatetime
                            ELSE fromisoformat(TextMax({r.timestamp : r \in mine})),
         is_currently_muted |-> Cardinality(active_violations) > 0]

MutCleanupIgnoresActive(rows, cutoff_date) ==
    {r \in rows : ~TextLess(r.timestamp, isoformat(cutoff_date))}

\* DELETE FROM user_violations WHERE timestamp < ? AND is_active = 0
cleanup_old_data(rows, cutoff_date) ==
    {r \in rows : ~(TextLess(r.timestamp, isoformat(cutoff_date)) /\ ~r.is_active)}

\* ---------------------------------------------------- escalation policy
Min(x, y) == IF x <= y THEN x ELSE y

MutDurationOffByOne(durations, violation_count) ==
    IF violation_count <= 0
    THEN IF durations # <<>> THEN durations[1] ELSE 60
    ELSE durations[Min(violation_count, Len(durations) - 1) + 1]

MutDurationNoClamp(durations, violation_count) ==
    IF violation_count <= 0
    THEN IF durations # <<>> THEN durations[1] ELSE 60
    ELSE IF violation_count > Len(durations) THEN durations[1]
    ELSE durations[violation_count]

\* The exception list indexing raises, as a value no duration takes.
IndexError == -1

\* Python indexes from 0; index -1 of an empty list raises IndexError.
get_mute_duration(durations, violation_count) ==
    IF violation_count <= 0
    THEN IF durations # <<>> THEN durations[1] ELSE 60
    ELSE LET index == Min(violation_count - 1, Len(durations) - 1)
         IN  IF index < 0 THEN IndexError ELSE durations[index + 1]

\* ------------------------------------------------- moderation manager
\* The actors whose messages and mutes the moderation manager handles.
CoordActors == {<<1, 1>>, <<4, 1>>}

\* The actors an admin mutes by command.
ManualActors == {<<1, 1>>}

ManualDurations == {30}

TelegramErrors == {"Forbidden", "TimedOut"}

\* The chats _notify_admins_of_mute sends to.
NotificationTargets ==
    IF notification_chat # None THEN <<notification_chat>> ELSE admin_ids

MutViolationDefaultType(f) ==
    [user_id |-> f.user_id, chat_id |-> f.chat_id,
     violation_type |-> "rate_limit",
     timestamp |-> f.timestamp, mute_duration_minutes |-> f.duration,
     is_active |-> TRUE, run |-> restarts]

Violation(f) ==
    [user_id |-> f.user_id, chat_id |-> f.chat_id,
     violation_type |-> IF f.op = "manual_mute" THEN "manual" ELSE "rate_limit",
     timestamp |-> f.timestamp, mute_duration_minutes |-> f.duration,
     is_active |-> TRUE, run |-> restarts]

MuteAction(f) ==
    [action |-> "mute", user_id |-> f.user_id, chat_id |-> f.chat_id,
     violation_id |-> f.violation_id, violation_count |-> f.violation_count + 1,
     mute_duration_minutes |-> f.duration, username |-> f.username,
     reason |-> "Rate limit exceeded"]

ManualMuteAction(f) ==
    [action |-> "manual_mute", user_id |-> f.user_id, chat_id |-> f.chat_id,
     violation_id |-> f.violation_id, mute_duration_minutes |-> f.duration,
     username |-> f.username]

NotifyArgs(f) ==
    [user_id |-> f.user_id, chat_id |-> f.chat_id,
     violation_count |-> f.violation_count + 1,
     duration_minutes |-> f.duration, username |-> f.username]

Running == [action |-> "running"]

\* `async with self._lock` of Database.add_violation: taken at once when the
\* lock is free, otherwise the task waits.
EnterAddViolation(p, f) ==
    /\ frame' = [frame EXCEPT ![p] = f]
    /\ ret' = [ret EXCEPT ![p] = Running]
    /\ IF dbLock = NoTask
       THEN dbLock' = p /\ pc' = [pc EXCEPT ![p] = "insert"]
       ELSE dbLock' = dbLock /\ pc' = [pc EXCEPT ![p] = "waitlock"]

\* handle_message up to its first suspension: the rate limiter call and, when
\* the limit is exceeded, the cutoff of get_user_violation_count; otherwise
\* it returns None.
HandleMessage(p, user_id, chat_id) ==
    LET r == add_message(message_history, user_id, chat_id, now)
        f == [NoFrame EXCEPT !.op = "handle_message", !.user_id = user_id,
                             !.chat_id = chat_id, !.exceeded = r.result]
    IN  /\ pc[p] = "idle"
        /\ r.result => started < MaxEscalations
        /\ message_history' = r.history
        /\ IF r.result
           THEN /\ frame' = [frame EXCEPT ![p] = [f EXCEPT !.cutoff = now - days_back]]
                /\ pc' = [pc EXCEPT ![p] = "count"]
                /\ ret' = [ret EXCEPT ![p] = Running]
                /\ started' = started + 1
           ELSE /\ frame' = [frame EXCEPT ![p] = f]
                /\ pc' = [pc EXCEPT ![p] = "done"]
                /\ ret' = [ret EXCEPT ![p] = ReturnNone]
                /\ UNCHANGED started
        /\ UNCHANGED <<now, trackerVars, directVars, notify_admins, ledger, nextId, dbLock,
                       notifLock>>

\* The COUNT query returns; handle_message computes the duration, builds the
\* UserViolation and enters add_violation.
GetUserViolationCount(p) ==
    LET violation_count == get_user_violation_count(ledger, frame[p].user_id,
                                frame[p].chat_id, frame[p].cutoff)
    IN  /\ pc[p] = "count"
        /\ EnterAddViolation(p, [frame[p] EXCEPT
               !.reads = @ + 1,
               !.violation_count = violation_count,
               !.duration = get_mute_duration(escalation_durations, violation_count + 1),
               !.timestamp = now])
        /\ UNCHANGED <<now, message_history, trackerVars, directVars, notify_admins, ledger,
                       nextId, notifLock, started>>

\* manual_mute up to its first suspension.
ManualMute(p, user_id, chat_id, duration_minutes) ==
    /\ pc[p] = "idle"
    /\ started < MaxEscalations
    /\ started' = started + 1
    /\ EnterAddViolation(p, [NoFrame EXCEPT !.op = "manual_mute",
           !.user_id = user_id, !.chat_id = chat_id,
           !.duration = duration_minutes, !.timestamp = now])
    /\ UNCHANGED <<now, message_history, trackerVars, directVars, notify_admins, ledger,
                   nextId, notifLock>>

AcquireDbLock(p) ==
    /\ pc[p] = "waitlock"
    /\ dbLock = NoTask
    /\ dbLock' = p
    /\ pc' = [pc EXCEPT ![p] = "insert"]
    /\ UNCHANGED <<now, message_history, trackerVars, directVars, notify_admins, ledger, nextId,
                   notifLock, frame, ret, started>>

\* INSERT and commit, under the database lock.
AddViolation(p) ==
    /\ pc[p] = "insert"
    /\ IF UniqueConflict(ledger, Violation(frame[p]))
       THEN /\ frame' = [frame EXCEPT ![p].raised = "IntegrityError"]
            /\ UNCHANGED <<ledger, nextId>>
       ELSE /\ ledger' = add_violation(ledger, nextId, Violation(frame[p]))
            /\ nextId' = nextId + 1
            /\ frame' = [frame EXCEPT ![p].violation_id = nextId,
                                      ![p].writes = @ + 1]
    /\ pc' = [pc EXCEPT ![p] = "release"]
    /\ UNCHANGED <<now, message_history, trackerVars, directVars, notify_admins, dbLock,
                   notifLock, ret, started>>

MutReleaseKeepsLock(p) ==
    /\ pc[p] = "release"
    /\ IF frame[p].raised # None
       THEN /\ pc' = [pc EXCEPT ![p] = "done"]
            /\ ret' = [ret EXCEPT ![p] = [action |-> "raise", error |-> frame[p].raised]]
       ELSE /\ pc' = [pc EXCEPT ![p] = "lookup"]
            /\ UNCHANGED ret
    /\ UNCHANGED <<now, message_history, trackerVars, directVars, notify_admins, ledger, nextId,
                   dbLock, notifLock, frame, started>>

MutReleaseSwallowsError(p) ==
    /\ pc[p] = "release"
    /\ dbLock' = NoTask
    /\ pc' = [pc EXCEPT ![p] = "lookup"]
    /\ UNCHANGED <<now, message_history, trackerVars, directVars, notify_admins, ledger, nextId,
                   notifLock, frame, ret, started>>

\* The connection closes and the lock is released: add_violation returns the
\* id, or the exception leaves handle_message / manual_mute.
ReleaseDbLock(p) ==
    /\ pc[p] = "release"
    /\ dbLock' = NoTask
    /\ IF frame[p].raised # None
       THEN /\ pc' = [pc EXCEPT ![p] = "done"]
            /\ ret' = [ret EXCEPT ![p] = [action |-> "raise", error |-> frame[p].raised]]
       ELSE /\ pc' = [pc EXCEPT ![p] = "lookup"]
            /\ UNCHANGED ret
    /\ UNCHANGED <<now, message_history, trackerVars, directVars, notify_admins, ledger, nextId,
                   notifLock, frame, started>>

\* _apply_mute: bot.get_chat_member answers or raises TelegramError.
GetChatMember(p) ==
    /\ pc[p] = "lookup"
    /\ \E found \in BOOLEAN :
          frame' = [frame EXCEPT ![p].username = IF found THEN "User" ELSE "Unknown"]
    /\ pc' = [pc EXCEPT ![p] = "restrict"]
    /\ UNCHANGED <<now, message_history, trackerVars, directVars, notify_admins, ledger, nextId,
                   dbLock, notifLock, ret, started>>

\* bot.restrict_chat_member succeeds.  manual_mute returns; handle_message
\* resets the rate limiter, calls _notify_admins_of_mute and, unless that
\* returns at once, enters the notification lock.
RestrictSucceeds(p) ==
    LET f == [frame[p] EXCEPT !.mute = "ok"]
        g == [f EXCEPT !.notified = @ + 1, !.notify_args = NotifyArgs(f)]
    IN  /\ pc[p] = "restrict"
        /\ IF f.op = "manual_mute"
           THEN /\ frame' = [frame EXCEPT ![p] = f]
                /\ ret' = [ret EXCEPT ![p] = ManualMuteAction(f)]
                /\ pc' = [pc EXCEPT ![p] = "done"]
                /\ UNCHANGED <<message_history, notifLock>>
           ELSE /\ message_history' =
                      reset_user_history(message_history, f.user_id, f.chat_id)
                /\ IF ~notify_admins \/ admin_ids = <<>>
                   THEN /\ frame' = [frame EXCEPT ![p] = g]
                        /\ ret' = [ret EXCEPT ![p] = MuteAction(f)]
                        /\ pc' = [pc EXCEPT ![p] = "done"]
                        /\ UNCHANGED notifLock
                   ELSE IF notifLock = NoTask
                   THEN /\ frame' = [frame EXCEPT ![p] =
                                        [g EXCEPT !.pending = NotificationTargets]]
                        /\ notifLock' = p
                        /\ pc' = [pc EXCEPT ![p] = "send"]
                        /\ UNCHANGED ret
                   ELSE /\ frame' = [frame EXCEPT ![p] = g]
                        /\ pc' = [pc EXCEPT ![p] = "waitnotify"]
                        /\ UNCHANGED <<ret, notifLock>>
        /\ UNCHANGED <<now, trackerVars, directVars, notify_admins, ledger, nextId, dbLock,
                       started>>

MutRestrictFailsResets(p, e) ==
    LET f == [frame[p] EXCEPT !.mute = e]
    IN  /\ pc[p] = "restrict"
        /\ frame' = [frame EXCEPT ![p] = f]
        /\ message_history' = reset_user_history(message_history, f.user_id, f.chat_id)
        /\ ret' = [ret EXCEPT ![p] =
                      IF f.op = "manual_mute"
                      THEN [action |-> "manual_mute_failed", error |-> e]
                      ELSE ReturnNone]
        /\ pc' = [pc EXCEPT ![p] = "done"]
        /\ UNCHANGED <<now, trackerVars, directVars, notify_admins, ledger,
                       nextId, dbLock, notifLock, started>>

MutRestrictFailsSurfaces(p, e) ==
    LET f == [frame[p] EXCEPT !.mute = e]
    IN  /\ pc[p] = "restrict"
        /\ frame' = [frame EXCEPT ![p] = f]
        /\ ret' = [ret EXCEPT ![p] =
                      IF f.op = "manual_mute"
                      THEN [action |-> "manual_mute_failed", error |-> e]
                      ELSE [action |-> "mute_failed", error |-> e]]
        /\ pc' = [pc EXCEPT ![p] = "done"]
        /\ UNCHANGED <<now, message_history, trackerVars, directVars, notify_admins, ledger,
                       nextId, dbLock, notifLock, started>>

\* bot.restrict_chat_member raises TelegramError: _apply_mute returns
\* success False with str(e); handle_message logs it and returns None,
\* manual_mute returns manual_mute_failed.
RestrictFails(p, e) ==
    LET f == [frame[p] EXCEPT !.mute = e]
    IN  /\ pc[p] = "restrict"
        /\ frame' = [frame EXCEPT ![p] = f]
        /\ ret' = [ret EXCEPT ![p] =
                      IF f.op = "manual_mute"
                      THEN [action |-> "manual_mute_failed", error |-> e]
                      ELSE ReturnNone]
        /\ pc' = [pc EXCEPT ![p] = "done"]
        /\ UNCHANGED <<now, message_history, trackerVars, directVars, notify_admins, ledger,
                       nextId, dbLock, notifLock, started>>

AcquireNotificationLock(p) ==
    /\ pc[p] = "waitnotify"
    /\ notifLock = NoTask
    /\ notifLock' = p
    /\ frame' = [frame EXCEPT ![p].pending = NotificationTargets]
    /\ pc' = [pc EXCEPT ![p] = "send"]
    /\ UNCHANGED <<now, message_history, trackerVars, directVars, notify_admins, ledger, nextId,
                   dbLock, ret, started>>

MutSendAbortsOnFailure(p) ==
    LET f == frame[p]
    IN  /\ pc[p] = "send"
        /\ \E ok \in BOOLEAN :
              /\ frame' = [frame EXCEPT ![p].pending = IF ok THEN Tail(f.pending) ELSE <<>>,
                                        ![p].delivered =
                                            IF ok THEN @ \cup {Head(f.pending)} ELSE @]
              /\ IF ~ok \/ Tail(f.pending) = <<>>
                 THEN /\ notifLock' = NoTask
                      /\ pc' = [pc EXCEPT ![p] = "done"]
                      /\ ret' = [ret EXCEPT ![p] = MuteAction(f)]
                 ELSE UNCHANGED <<notifLock, pc, ret>>
        /\ UNCHANGED <<now, message_history, trackerVars, directVars, notify_admins, ledger,
                       nextId, dbLock, started>>

\* One bot.send_message of _notify_admins_of_mute: delivered, or TelegramError
\* (logged).  After the last one the lock is released and handle_message
\* returns the action.
SendNotification(p) ==
    LET f == frame[p]
        rest == Tail(f.pending)
    IN  /\ pc[p] = "send"
        /\ \E ok \in BOOLEAN :
              frame' = [frame EXCEPT ![p].pending = rest,
                                     ![p].delivered =
                                         IF ok THEN @ \cup {Head(f.pending)} ELSE @]
        /\ IF rest = <<>>
           THEN /\ notifLock' = NoTask
                /\ pc' = [pc EXCEPT ![p] = "done"]
                /\ ret' = [ret EXCEPT ![p] = MuteAction(f)]
           ELSE UNCHANGED <<notifLock, pc, ret>>
        /\ UNCHANGED <<now, message_history, trackerVars, directVars, notify_admins, ledger,
                       nextId, dbLock, started>>

\* The caller (ModeratorBot.handle_message, a command handler) takes the
\* result or logs the exception; the task is free for the next update.
Return(p) ==
    /\ pc[p] = "done"
    /\ pc' = [pc EXCEPT ![p] = "idle"]
    /\ frame' = [frame EXCEPT ![p] = NoFrame]
    /\ ret' = [ret EXCEPT ![p] = ReturnNone]
    /\ UNCHANGED <<now, message_history, trackerVars, directVars, notify_admins, ledger, nextId,
                   dbLock, notifLock, started>>

\* unmute_user up to its suspension in bot.restrict_chat_member.
UnmuteUser(p, user_id, chat_id) ==
    /\ pc[p] = "idle"
    /\ frame' = [frame EXCEPT ![p] = [NoFrame EXCEPT !.op = "unmute_user",
                                         !.user_id = user_id, !.chat_id = chat_id]]
    /\ ret' = [ret EXCEPT ![p] = Running]
    /\ pc' = [pc EXCEPT ![p] = "unrestrict"]
    /\ UNCHANGED <<now, message_history, trackerVars, directVars, notify_admins, ledger,
                   nextId, dbLock, notifLock, started>>

\* bot.restrict_chat_member with full permissions succeeds.
UnrestrictSucceeds(p) ==
    /\ pc[p] = "unrestrict"
    /\ frame' = [frame EXCEPT ![p].lifted = "ok"]
    /\ ret' = [ret EXCEPT ![p] = [action |-> "unmute", success |-> TRUE]]
    /\ pc' = [pc EXCEPT ![p] = "done"]
    /\ UNCHANGED <<now, message_history, trackerVars, directVars, notify_admins, ledger,
                   nextId, dbLock, notifLock, started>>

\* It raises TelegramError: the result has no 'action' key.
UnrestrictFails(p, e) ==
    /\ pc[p] = "unrestrict"
    /\ frame' = [frame EXCEPT ![p].lifted = e]
    /\ ret' = [ret EXCEPT ![p] = [action |-> None, success |-> FALSE, error |-> e]]
    /\ pc' = [pc EXCEPT ![p] = "done"]
    /\ UNCHANGED <<now, message_history, trackerVars, directVars, notify_admins, ledger,
                   nextId, dbLock, notifLock, started>>

\* The holder of Database._lock when it is the periodic cleanup task.
CleanupTask == 3

\* _periodic_cleanup's db.deactivate_old_violations(hours_back), running
\* beside the handlers.  The cutoff is computed on entry; `async with
\* self._lock` is taken at once when free, otherwise the task waits.  The
\* field began of dbcall is history: the next id when the call began.
DeactivateBegin(hours_back) ==
    /\ IF dbcall.op = "none" THEN TRUE ELSE dbcall.pc = "returned"
    /\ dbcall' = [op |-> "deactivate_old_violations", cutoff |-> now - hours_back,
                  began |-> nextId, deactivated |-> {},
                  pc |-> IF dbLock = NoTask THEN "update" ELSE "waitlock"]
    /\ dbLock' = IF dbLock = NoTask THEN CleanupTask ELSE dbLock
    /\ UNCHANGED <<now, message_history, trackerVars, policy, notify_admins, ledger,
                   nextId, notifLock, pc, frame, ret, started>>

DeactivateAcquire ==
    /\ dbcall.op = "deactivate_old_violations"
    /\ dbcall.pc = "waitlock"
    /\ dbLock = NoTask
    /\ dbLock' = CleanupTask
    /\ dbcall' = [dbcall EXCEPT !.pc = "update"]
    /\ UNCHANGED <<now, message_history, trackerVars, policy, notify_admins, ledger,
                   nextId, notifLock, pc, frame, ret, started>>

\* The UPDATE and its commit, then the lock is released.  The field
\* deactivated is history: the ids of the rows the UPDATE turned inactive.
DeactivateUpdate ==
    /\ dbcall.op = "deactivate_old_violations"
    /\ dbcall.pc = "update"
    /\ ledger' = deactivate_old_violations(ledger, dbcall.cutoff)
    /\ dbcall' = [dbcall EXCEPT !.pc = "returned",
                                !.deactivated = {r.id : r \in ledger \ ledger'}]
    /\ dbLock' = NoTask
    /\ UNCHANGED <<now, message_history, trackerVars, policy, notify_admins, nextId,
                   notifLock, pc, frame, ret, started>>

MutRestartLosesLedger ==
    /\ restarts < MaxRestarts
    /\ restarts' = restarts + 1
    /\ message_history' = <<>>
    /\ ledger' = {}
    /\ nextId' = 1
    /\ dbLock' = NoTask
    /\ notifLock' = NoTask
    /\ pc' = [p \in Tasks |-> "idle"]
    /\ frame' = [p \in Tasks |-> NoFrame]
    /\ ret' = [p \in Tasks |-> ReturnNone]
    /\ UNCHANGED <<now, recorded, ncalls, last, directVars, notify_admins, started>>

\* The process stops and starts again: the module-level RateLimiter,
\* ModerationManager and Database objects are built anew (empty
\* _message_history, free locks, no task in flight) while the rows stay in
\* the SQLite file at db_path.
Restart ==
    /\ restarts < MaxRestarts
    /\ restarts' = restarts + 1
    /\ message_history' = <<>>
    /\ dbLock' = NoTask
    /\ notifLock' = NoTask
    /\ pc' = [p \in Tasks |-> "idle"]
    /\ frame' = [p \in Tasks |-> NoFrame]
    /\ ret' = [p \in Tasks |-> ReturnNone]
    /\ UNCHANGED <<now, recorded, ncalls, last, directVars, notify_admins, ledger, nextId,
                   started>>

Next ==
    \/ now < MaxClock /\ Tick
    \/ \E p \in Tasks, a \in CoordActors : HandleMessage(p, a[1], a[2])
    \/ \E p \in Tasks : GetUserViolationCount(p)
    \/ \E p \in Tasks, a \in ManualActors, d \in ManualDurations :
          ManualMute(p, a[1], a[2], d)
    \/ \E p \in Tasks : AcquireDbLock(p)
    \/ \E p \in Tasks : AddViolation(p)
    \/ \E p \in Tasks : ReleaseDbLock(p)
    \/ \E p \in Tasks : GetChatMember(p)
    \/ \E p \in Tasks : RestrictSucceeds(p)
    \/ \E p \in Tasks, e \in TelegramErrors : RestrictFails(p, e)
    \/ \E p \in Tasks : AcquireNotificationLock(p)
    \/ \E p \in Tasks : SendNotification(p)
    \/ \E p \in Tasks : Return(p)
    \/ Restart

Spec == Init /\ [][Next]_vars

\* ------------------------------------------ admin commands and cleanup
\* The admin commands (manual_mute, unmute_user) of two tasks beside the
\* periodic deactivation.
AdminActors == {<<1, 1>>}

AdminInit == Init /\ notify_admins = TRUE

AdminNext ==
    \/ now < MaxAdminClock /\ Tick
    \/ \E p \in Tasks, a \in AdminActors, d \in ManualDurations :
          ManualMute(p, a[1], a[2], d)
    \/ \E p \in Tasks : AcquireDbLock(p)
    \/ \E p \in Tasks : AddViolation(p)
    \/ \E p \in Tasks : ReleaseDbLock(p)
    \/ \E p \in Tasks : GetChatMember(p)
    \/ \E p \in Tasks : RestrictSucceeds(p)
    \/ \E p \in Tasks, e \in TelegramErrors : RestrictFails(p, e)
    \/ \E p \in Tasks, a \in AdminActors : UnmuteUser(p, a[1], a[2])
    \/ \E p \in Tasks : UnrestrictSucceeds(p)
    \/ \E p \in Tasks, e \in TelegramErrors : UnrestrictFails(p, e)
    \/ \E p \in Tasks : Return(p)
    \/ \E h \in Lookbacks : DeactivateBegin(h)
    \/ DeactivateAcquire
    \/ DeactivateUpdate

SpecAdmin == AdminInit /\ [][AdminNext]_vars

\* ------------------------------------------- handlers under fair scheduling
\* Message handlers beside one sweep of the periodic task, at one instant of
\* the clock.  hours_back = 24 of the periodic deactivation is less than a
\* tick of this clock.  The display name and the kind of Telegram error do
\* not steer the control flow, so one of each is drawn.
LiveActors == {<<1, 1>>, <<2, 1>>, <<4, 1>>}

LiveNext ==
    \/ \E p \in Tasks, a \in LiveActors : HandleMessage(p, a[1], a[2])
    \/ \E p \in Tasks : GetUserViolationCount(p)
    \/ \E p \in Tasks : AcquireDbLock(p)
    \/ \E p \in Tasks : AddViolation(p)
    \/ \E p \in Tasks : ReleaseDbLock(p)
    \/ \E p \in Tasks : GetChatMember(p) /\ frame'[p].username = "User"
    \/ \E p \in Tasks : RestrictSucceeds(p)
    \/ \E p \in Tasks : RestrictFails(p, "TimedOut")
    \/ \E p \in Tasks : AcquireNotificationLock(p)
    \/ \E p \in Tasks : SendNotification(p)
    \/ \E p \in Tasks : Return(p)
    \/ dbcall.op = "none" /\ DeactivateBegin(0)
    \/ DeactivateAcquire
    \/ DeactivateUpdate

\* The event loop runs every coroutine that is ready.  asyncio.Lock wakes its
\* waiters in the order they came; with finitely many invocations a waiter's
\* acquire stays enabled once the holders are through, so weak fairness of
\* each task's next step is what the scheduling gives.
LiveFairness ==
    /\ \A p \in Tasks :
          WF_vars(\/ GetUserViolationCount(p)
                  \/ AcquireDbLock(p)
                  \/ AddViolation(p)
                  \/ ReleaseDbLock(p)
                  \/ GetChatMember(p)
                  \/ RestrictSucceeds(p)
                  \/ \E e \in TelegramErrors : RestrictFails(p, e)
                  \/ AcquireNotificationLock(p)
                  \/ SendNotification(p))
    /\ WF_vars(DeactivateAcquire \/ DeactivateUpdate)

LiveInit == Init /\ notify_admins = TRUE

SpecLive == LiveInit /\ [][LiveNext]_vars /\ LiveFairness

\* -------------------------------------------- moderation manager claims
\* The rate_limit / manual row task p's invocation asked add_violation to
\* store is in the ledger.
Recorded(p) ==
    \E r \in ledger :
        /\ r.id = frame[p].violation_id
        /\ r.user_id = frame[p].user_id
        /\ r.chat_id = frame[p].chat_id
        /\ r.violation_type =
              (IF frame[p].op = "manual_mute" THEN "manual" ELSE "rate_limit")
        /\ r.mute_duration_minutes = frame[p].duration

\* bot.restrict_chat_member has been called in task p's invocation.
Attempted(p) == frame[p].mute # "none"

Failed(p) == frame[p].mute \in TelegramErrors

InApplyMute(p) == pc[p] \in {"lookup", "restrict"}

\* The actor's rows newer than the cutoff, by the clock value they were
\* stamped with.
RecentRows(rows, user_id, chat_id, cutoff) ==
    {r \in rows : r.user_id = user_id /\ r.chat_id = chat_id /\ r.tick > cutoff}

\* The rung of a ladder for a 1-based ordinal, clamped to its last rung.
Rung2(ladder, n) == ladder[IF n > Len(ladder) THEN Len(ladder) ELSE n]

\* The rung of the ladder for a 1-based ordinal, clamped to the last rung.
Rung(n) ==
    escalation_durations[IF n > Len(escalation_durations)
                         THEN Len(escalation_durations) ELSE n]

\* C5: in handle_message and manual_mute, bot.restrict_chat_member (and the
\* whole of _apply_mute) runs only after db.add_violation has stored the
\* row of that action: whenever a restriction is being or has been
\* attempted, its row is in the ledger, and it was there before the call.
C5_WriteBeforeActuate ==
    /\ [](\A p \in Tasks : InApplyMute(p) \/ Attempted(p) => Recorded(p))
    /\ [][\A p \in Tasks : ~Attempted(p) /\ Attempted(p)' => Recorded(p)]_vars

\* An automatic and a manual restriction, both attempted.
C5_Witness ==
    \E p, q \in Tasks :
        /\ frame[p].op = "handle_message" /\ Attempted(p)
        /\ frame[q].op = "manual_mute" /\ frame[q].mute = "ok"

\* C6: once the rate limiter reports exceeded, handle_message takes as
\* ordinal the number of the actor's rows newer than 30 days before the call
\* plus one and as duration the ladder's rung for it, stores a rate_limit row
\* with that duration, and when the restriction succeeds deletes the actor's
\* rate limiter history, calls _notify_admins_of_mute exactly once with
\* (user_id, chat_id, ordinal, duration, username) and returns a 'mute'
\* action with that ordinal and duration.
C6_EscalationOnExceeded ==
    /\ [](\A p \in Tasks : frame[p].op = "handle_message" =>
            /\ frame[p].reads >= 1 =>
                  frame[p].duration = Rung(frame[p].violation_count + 1)
            /\ InApplyMute(p) \/ Attempted(p) => Recorded(p)
            /\ frame[p].notified = (IF frame[p].mute = "ok" THEN 1 ELSE 0)
            /\ frame[p].mute = "ok" =>
                  frame[p].notify_args =
                      [user_id |-> frame[p].user_id, chat_id |-> frame[p].chat_id,
                       violation_count |-> frame[p].violation_count + 1,
                       duration_minutes |-> frame[p].duration,
                       username |-> frame[p].username]
            /\ pc[p] = "done" /\ frame[p].mute = "ok" =>
                  /\ ret[p].action = "mute"
                  /\ ret[p].user_id = frame[p].user_id
                  /\ ret[p].chat_id = frame[p].chat_id
                  /\ ret[p].violation_count = frame[p].violation_count + 1
                  /\ ret[p].mute_duration_minutes = frame[p].duration)
    /\ [][\A p \in Tasks :
            /\ pc[p] = "count" /\ frame'[p].reads = frame[p].reads + 1 =>
                  frame'[p].violation_count =
                      Cardinality(RecentRows(ledger, frame[p].user_id,
                                             frame[p].chat_id, frame[p].cutoff))
            /\ (frame[p].op = "handle_message" /\ pc[p] = "restrict"
                   /\ frame'[p].mute = "ok") =>
                  <<frame[p].chat_id, frame[p].user_id>> \notin DOMAIN message_history'
         ]_vars

\* A second violation inside the lookback, muted for the second rung.
C6_Witness ==
    \E p \in Tasks :
        /\ pc[p] = "done"
        /\ ret[p].action = "mute"
        /\ ret[p].violation_count = 2
        /\ ret[p].mute_duration_minutes = escalation_durations[2]
        /\ frame[p].notified = 1

\* C7: when bot.restrict_chat_member fails inside handle_message, the step
\* leaves the rate limiter's map as it was, no _notify_admins_of_mute call
\* and no notification is made, and the row stored before the attempt stays
\* in the ledger.
C7_FailedActuationKeepsState ==
    /\ [](\A p \in Tasks : frame[p].op = "handle_message" /\ Failed(p) =>
            /\ frame[p].notified = 0
            /\ frame[p].delivered = {}
            /\ Recorded(p))
    /\ [][\A p \in Tasks :
            (frame[p].op = "handle_message" /\ pc[p] = "restrict" /\ Failed(p)') =>
                /\ message_history' = message_history
                /\ ledger' = ledger
         ]_vars

\* A failed restriction that left the actor's over-limit burst in place.
C7_Witness ==
    \E p \in Tasks :
        /\ frame[p].op = "handle_message"
        /\ frame[p].mute = "TimedOut"
        /\ Len(HistoryOf(message_history, <<frame[p].chat_id, frame[p].user_id>>))
              > antiflood_max_messages

\* C8 as claimed: when the restriction fails for a triggering message,
\* handle_message hands its caller a failure result carrying the error text.
C8_FailureSurfaced ==
    \A p \in Tasks :
        (pc[p] = "done" /\ frame[p].op = "handle_message" /\ Failed(p)) =>
            /\ ret[p].action # None
            /\ ret[p].error = frame[p].mute

\* C8 as amended: when the restriction fails for a triggering message,
\* _apply_mute reports the error text to handle_message, which returns None
\* to its caller: the value it also returns when no violation was detected.
C8_FailureReturnsNone ==
    \A p \in Tasks :
        (pc[p] = "done" /\ frame[p].op = "handle_message") =>
            /\ Failed(p) => ret[p] = ReturnNone
            /\ ~frame[p].exceeded => ret[p] = ReturnNone

C8_Witness ==
    \E p, q \in Tasks :
        /\ pc[p] = "done" /\ frame[p].op = "handle_message"
        /\ frame[p].mute = "Forbidden" /\ ret[p] = ReturnNone
        /\ pc[q] = "done" /\ frame[q].op = "handle_message"
        /\ ~frame[q].exceeded /\ ret[q] = ReturnNone

\* C9: handle_message returns a 'mute' action iff the rate limiter reported
\* exceeded and the restriction succeeded; when the limit is not exceeded,
\* the actor is exempt or the restriction failed it returns None; and when the
\* rate limiter returns False the invocation ends in that step with no ledger
\* query, no row written, no restriction attempted and no notification.
C9_ActionIffMuted ==
    /\ [](\A p \in Tasks : (pc[p] = "done" /\ frame[p].op = "handle_message") =>
            /\ ret[p].action = "mute" <=> (frame[p].exceeded /\ frame[p].mute = "ok")
            /\ ret[p].action \in {None, "mute", "raise"}
            /\ (~frame[p].exceeded \/ Failed(p)
                  \/ is_exempt_from_rate_limit(frame[p].user_id)) => ret[p] = ReturnNone
            /\ ~frame[p].exceeded =>
                  /\ frame[p].reads = 0
                  /\ frame[p].violation_id = 0
                  /\ ~Attempted(p)
                  /\ frame[p].notified = 0)
    /\ [][\A p \in Tasks :
            (pc[p] = "idle" /\ frame'[p].op = "handle_message" /\ ~frame'[p].exceeded) =>
                /\ pc'[p] = "done"
                /\ ledger' = ledger /\ nextId' = nextId
         ]_vars

\* One task returned a 'mute' action while the other returned None for an
\* exempt actor.
C9_Witness ==
    \E p, q \in Tasks :
        /\ pc[p] = "done" /\ ret[p].action = "mute"
        /\ pc[q] = "done" /\ frame[q].op = "handle_message"
        /\ is_exempt_from_rate_limit(frame[q].user_id) /\ ret[q] = ReturnNone

\* C10 as claimed: the ordinal of a rate_limit violation counts only the
\* actor's rate_limit rows, so manual rows never change it.
C10_ManualRowsNotCounted ==
    [][\A p \in Tasks :
          pc[p] = "count" /\ frame'[p].reads = frame[p].reads + 1 =>
              frame'[p].violation_count =
                  Cardinality({r \in RecentRows(ledger, frame[p].user_id,
                                                frame[p].chat_id, frame[p].cutoff) :
                                  r.violation_type = "rate_limit"})
      ]_vars

\* C11: a restart empties the rate limiter's map and leaves every row of the
\* ledger in place, and the violation count any later handle_message reads is
\* the number of the actor's rows stamped after its 30-day cutoff, rows
\* stored before the restart included: ordinal and duration are the ones the
\* same ledger gives without a restart.
C11_EscalationSurvivesRestart ==
    /\ [](\A p \in Tasks :
            (restarts > 0 /\ frame[p].op = "handle_message" /\ frame[p].reads >= 1) =>
                frame[p].duration = Rung(frame[p].violation_count + 1))
    /\ [][/\ restarts' # restarts =>
                /\ message_history' = <<>>
                /\ ledger' = ledger
          /\ \A p \in Tasks :
                (restarts > 0 /\ pc[p] = "count" /\ frame'[p].reads = frame[p].reads + 1) =>
                    frame'[p].violation_count =
                        Cardinality(RecentRows(ledger, frame[p].user_id,
                                               frame[p].chat_id, frame[p].cutoff))
       ]_vars

\* After a restart an actor is muted for the second rung on the strength of
\* a row stored before the restart.
C11_Witness ==
    \E p \in Tasks :
        /\ restarts > 0
        /\ pc[p] = "done"
        /\ ret[p].action = "mute"
        /\ ret[p].violation_count = 2
        /\ \E r \in ledger : r.id = ret[p].violation_id /\ r.run = restarts
        /\ \E r \in ledger : /\ r.user_id = frame[p].user_id
                              /\ r.chat_id = frame[p].chat_id
                              /\ r.violation_type = "rate_limit"
                              /\ r.run < restarts

\* ------------------------------------------- escalation policy on its own
\* The comma-separated pieces of ESCALATION_DURATIONS: each either parses
\* with int(x.strip()) to a value or makes int() raise ValueError.
\* str.split(',') never yields an empty list.
DurationValues == {60, 360, 1440}

EnvTokens == [ok : {TRUE}, value : DurationValues] \cup {[ok |-> FALSE, value |-> 0]}

EnvValues == UNION {[1..n -> EnvTokens] : n \in 1..MaxLadder}

\* Config.__init__: the list of the parsed pieces, or the default ladder when
\* any piece fails to parse.
load_escalation_durations(tokens) ==
    IF \A i \in DOMAIN tokens : tokens[i].ok
    THEN [i \in DOMAIN tokens |-> tokens[i].value]
    ELSE <<60, 360, 1440, 10080>>

LoadedLadders == {load_escalation_durations(t) : t \in EnvValues}

\* The ordinals get_mute_duration is called with.
Ordinals == -1..MaxOrdinal

\* Config.escalation_durations after start-up, or emptied afterwards: the
\* case get_mute_duration's `if self.escalation_durations else 60` is for.
PolicyInit ==
    /\ InitButLadder
    /\ notify_admins = TRUE
    /\ policy \in [durations : LoadedLadders \cup {<<>>}, calls : {{}}]

GetMuteDuration(violation_count) ==
    /\ policy' = [policy EXCEPT !.calls = @ \cup
                     {[violation_count |-> violation_count,
                       result |-> get_mute_duration(policy.durations, violation_count)]}]
    /\ UNCHANGED <<now, message_history, trackerVars, coordVars, dbcall>>

PolicyNext == \E n \in Ordinals : GetMuteDuration(n)

SpecPolicy == PolicyInit /\ [][PolicyNext]_vars

\* ------------------------------------------------------------- start-up
\* The values of ANTIFLOOD_MAX_MESSAGES and ANTIFLOOD_WINDOW_SECONDS in the
\* environment: the text of an integer, or text int() rejects.
IntTokens == [ok : {TRUE}, value : -1..2] \cup {[ok |-> FALSE, value |-> 0]}

Unloaded ==
    [loaded |-> FALSE, error |-> None, durations |-> <<>>, calls |-> {},
     antiflood_max_messages |-> 0, antiflood_window_seconds |-> 0]

ConfigInit ==
    /\ InitButLadder
    /\ notify_admins = TRUE
    /\ policy = Unloaded

\* Config.__init__ on the import of config.settings: int() of the two
\* rate-limit settings raises ValueError on text that is no integer and the
\* import fails; the ladder falls back to the default; nothing else is
\* looked at.
LoadConfig(max_messages, window_seconds, durations) ==
    /\ ~policy.loaded
    /\ policy.error = None
    /\ policy' = IF max_messages.ok /\ window_seconds.ok
                 THEN [loaded |-> TRUE, error |-> None,
                       durations |-> load_escalation_durations(durations),
                       calls |-> {},
                       antiflood_max_messages |-> max_messages.value,
                       antiflood_window_seconds |-> window_seconds.value]
                 ELSE [Unloaded EXCEPT !.error = "ValueError"]
    /\ UNCHANGED <<now, message_history, trackerVars, coordVars, dbcall>>

\* rate_limiter.check_rate_limit of a non-exempt user under the loaded
\* settings.
ConfigCheckRateLimit(user_id, chat_id) ==
    LET key == <<chat_id, user_id>>
        r == record(HistoryOf(message_history, key), now,
                    policy.antiflood_window_seconds, policy.antiflood_max_messages)
    IN  /\ policy.loaded
        /\ ~is_exempt_from_rate_limit(user_id)
        /\ ncalls < MaxCalls
        /\ message_history' = SetKey(message_history, key, r.ts)
        /\ last' = [op |-> "check", user_id |-> user_id, chat_id |-> chat_id,
                    result |-> r.exceeded]
        /\ ncalls' = ncalls + 1
        /\ UNCHANGED <<now, recorded, restarts, coordVars, directVars>>

ConfigNext ==
    \/ \E m, w \in IntTokens, d \in EnvValues : LoadConfig(m, w, d)
    \/ ConfigCheckRateLimit(1, 1)
    \/ policy.loaded /\ GetMuteDuration(1)

SpecConfig == ConfigInit /\ [][ConfigNext]_vars

\* ------------------------------------------------ escalation policy claims
\* C12: with a non-empty ladder L get_mute_duration(n) is L's first rung for
\* every n <= 0 and rung min(n, len(L)) for every n >= 1; on the ladder
\* 60, 360, 1440, 10080 the ordinals 1..5 give 60, 360, 1440, 10080, 10080.
C12_LadderLookup ==
    /\ policy.durations # <<>> =>
          \A c \in policy.calls :
              c.result = IF c.violation_count <= 0 THEN policy.durations[1]
                         ELSE Rung2(policy.durations, c.violation_count)
    /\ [n \in 1..5 |-> get_mute_duration(<<60, 360, 1440, 10080>>, n)]
          = <<60, 360, 1440, 10080, 10080>>

\* The default ladder asked for an ordinal beyond its length, for its last
\* rung and for ordinal 0.
C12_Witness ==
    /\ policy.durations = <<60, 360, 1440, 10080>>
    /\ [violation_count |-> 5, result |-> 10080] \in policy.calls
    /\ [violation_count |-> 4, result |-> 10080] \in policy.calls
    /\ [violation_count |-> 0, result |-> 60] \in policy.calls

\* C13 as claimed: on every ladder the loader produces, the duration for
\* ordinal n + 1 is at least the duration for ordinal n.
C13_MonotonicEscalation ==
    policy.durations \in LoadedLadders =>
        \A c, d \in policy.calls :
            d.violation_count = c.violation_count + 1 => d.result >= c.result

LedgerActors == {<<1, 1>>, <<2, 1>>}

LedgerInit == Init /\ notify_admins = TRUE

\* The violations the callers store: a manual seven-day mute at the even
\* ticks, an automatic first-rung mute of sixty minutes at the odd ones.
LedgerKinds == <<[violation_type |-> "manual", minutes |-> 10080],
                 [violation_type |-> "rate_limit", minutes |-> 60]>>

LedgerTick ==
    /\ now < MaxLedgerClock
    /\ now' = now + 1
    /\ UNCHANGED <<message_history, trackerVars, coordVars, directVars>>

\* await db.add_violation(UserViolation(user_id, chat_id, timestamp=...)):
\* the caller passes a timestamp (the tests pass past ones) or takes
\* utcnow().  The INSERT either commits the row under the next id or fails on
\* the UNIQUE constraint, and then the exception leaves add_violation.
DbAddViolation(user_id, chat_id, timestamp) ==
    LET violation == [user_id |-> user_id, chat_id |-> chat_id,
                      violation_type |-> LedgerKinds[(timestamp % 2) + 1].violation_type,
                      timestamp |-> timestamp,
                      mute_duration_minutes |-> LedgerKinds[(timestamp % 2) + 1].minutes,
                      is_active |-> TRUE, run |-> restarts]
    IN  /\ nextId <= MaxRows
        /\ timestamp <= now
        /\ dbLock = NoTask
        /\ IF UniqueConflict(ledger, violation)
           THEN /\ dbcall' = [op |-> "add_violation", user_id |-> user_id,
                              chat_id |-> chat_id, tick |-> timestamp,
                              raised |-> "IntegrityError", result |-> 0]
                /\ UNCHANGED <<ledger, nextId>>
           ELSE /\ ledger' = add_violation(ledger, nextId, violation)
                /\ nextId' = nextId + 1
                /\ dbcall' = [op |-> "add_violation", user_id |-> user_id,
                              chat_id |-> chat_id, tick |-> timestamp,
                              raised |-> None, result |-> nextId]
        /\ UNCHANGED <<now, message_history, trackerVars, policy, notify_admins,
                       dbLock, notifLock, pc, frame, ret, started>>

DbGetUserViolationCount(user_id, chat_id, lookback) ==
    LET cutoff_date == now - lookback
    IN  /\ dbcall' = [op |-> "get_user_violation_count", user_id |-> user_id,
                      chat_id |-> chat_id, cutoff |-> cutoff_date,
                      result |-> get_user_violation_count(ledger, user_id,
                                                          chat_id, cutoff_date)]
        /\ UNCHANGED <<now, message_history, trackerVars, coordVars, policy>>

\* The field changed of dbcall is history: how many rows the call touched.
DbDeactivateOldViolations(hours_back) ==
    LET cutoff_date == now - hours_back
    IN  /\ dbLock = NoTask
        /\ ledger' = deactivate_old_violations(ledger, cutoff_date)
        /\ dbcall' = [op |-> "deactivate_old_violations", cutoff |-> cutoff_date,
                      changed |-> Cardinality(ledger \ ledger')]
        /\ UNCHANGED <<now, message_history, trackerVars, policy, notify_admins,
                       nextId, dbLock, notifLock, pc, frame, ret, started>>

DbCleanupOldData(days_to_keep) ==
    LET cutoff_date == now - days_to_keep
    IN  /\ dbLock = NoTask
        /\ ledger' = cleanup_old_data(ledger, cutoff_date)
        /\ dbcall' = [op |-> "cleanup_old_data", cutoff |-> cutoff_date,
                      changed |-> Cardinality(ledger \ ledger')]
        /\ UNCHANGED <<now, message_history, trackerVars, policy, notify_admins,
                       nextId, dbLock, notifLock, pc, frame, ret, started>>

\* await db.get_user_stats(user_id, chat_id).  The field at of dbcall is
\* history: the clock when the call was made.
DbGetUserStats(user_id, chat_id) ==
    /\ dbcall' = [op |-> "get_user_stats", user_id |-> user_id,
                  chat_id |-> chat_id, at |-> now,
                  result |-> get_user_stats(ledger, user_id, chat_id, now)]
    /\ UNCHANGED <<now, message_history, trackerVars, coordVars, policy>>

LedgerNext ==
    \/ LedgerTick
    \/ \E a \in LedgerActors, t \in 0..MaxLedgerClock :
          DbAddViolation(a[1], a[2], t)
    \/ \E a \in LedgerActors, d \in Lookbacks :
          DbGetUserViolationCount(a[1], a[2], d)
    \/ \E h \in Lookbacks : DbDeactivateOldViolations(h)
    \/ \E d \in Lookbacks : DbCleanupOldData(d)
    \/ \E a \in LedgerActors : DbGetUserStats(a[1], a[2])

SpecLedger == LedgerInit /\ [][LedgerNext]_vars

\* ------------------------------------------------------ reporting query
\* The actors get_user_status is asked about: one that sends messages and
\* is muted, one the bot has never seen.
StatusActors == {<<1, 1>>, <<2, 1>>}

StatusInit == Init /\ notify_admins = TRUE

\* ModerationManager.get_user_status: db.get_user_stats, then
\* rate_limiter.get_message_count, then the dictionary built from both and
\* from the exemption predicates.
GetUserStatus(user_id, chat_id) ==
    LET stats == get_user_stats(ledger, user_id, chat_id, now)
        r == get_message_count(message_history, user_id, chat_id, now)
    IN  /\ message_history' = r.history
        /\ last' = [op |-> "status", user_id |-> user_id, chat_id |-> chat_id,
                    result |-> [user_id |-> user_id, chat_id |-> chat_id,
                                total_violations |-> stats.total_violations,
                                last_violation |-> stats.last_violation,
                                is_currently_muted |-> stats.is_currently_muted,
                                current_message_count |-> r.result,
                                is_exempt |-> is_exempt_from_rate_limit(user_id),
                                is_admin |-> is_admin(user_id),
                                is_whitelisted |-> is_whitelisted(user_id)]]
        /\ UNCHANGED <<now, recorded, ncalls, restarts, coordVars, directVars>>

StatusNext ==
    \/ Tick
    \/ CheckRateLimit(1, 1)
    \/ \E t \in 0..MaxLedgerClock : DbAddViolation(1, 1, t)
    \/ \E a \in StatusActors : GetUserStatus(a[1], a[2])

SpecStatus == StatusInit /\ [][StatusNext]_vars

\* ---------------------------------------------------------- ledger claims
\* The row of ledger' that has the id of row r, if any.
Successors(r) == {q \in ledger' : q.id = r.id}

\* C15: cleanup_old_data deletes only rows that are inactive and stamped
\* before its cutoff: a row with is_active true stays whatever its age, a row
\* stamped at or after the cutoff stays, and the rows that stay are unaltered.
C15_PurgeOnlyInactiveOld ==
    [][dbcall'.op = "cleanup_old_data" /\ ledger' # ledger =>
          /\ ledger' \subseteq ledger
          /\ \A r \in ledger \ ledger' : ~r.is_active /\ r.tick < dbcall'.cutoff
          /\ \A r \in ledger : r.is_active \/ r.tick >= dbcall'.cutoff => r \in ledger'
      ]_vars

\* A purge removed a row and left an equally old active row and an inactive
\* row stamped at the cutoff.
C15_Witness ==
    /\ dbcall.op = "cleanup_old_data"
    /\ dbcall.changed >= 1
    /\ \E r \in ledger : r.is_active /\ r.tick < dbcall.cutoff
    /\ \E r \in ledger : ~r.is_active /\ r.tick = dbcall.cutoff

\* C16: get_user_violation_count(user_id, chat_id, days_back) returns the
\* number of rows of that user_id and chat_id stamped strictly after
\* now - days_back; it counts no row of another actor and no row stamped at
\* or before the cutoff, and changes nothing.
C16_CountSince ==
    /\ [](dbcall.op = "get_user_violation_count" =>
            dbcall.result = Cardinality({r \in ledger : /\ r.user_id = dbcall.user_id
                                                        /\ r.chat_id = dbcall.chat_id
                                                        /\ r.tick > dbcall.cutoff}))
    /\ [][(dbcall'.op = "get_user_violation_count"
              /\ (dbcall.op # "get_user_violation_count" \/ dbcall' # dbcall)) =>
            /\ ledger' = ledger
            /\ \E d \in Lookbacks : dbcall'.cutoff = now - d
       ]_vars

\* A count of 1 over a ledger that also holds a row of the actor stamped at
\* the cutoff and a newer row of another actor.
C16_Witness ==
    /\ dbcall.op = "get_user_violation_count"
    /\ dbcall.result = 1
    /\ \E r \in ledger : /\ r.user_id = dbcall.user_id /\ r.chat_id = dbcall.chat_id
                         /\ r.tick = dbcall.cutoff
    /\ \E r \in ledger : r.user_id # dbcall.user_id /\ r.tick > dbcall.cutoff

\* C17: once add_violation has returned, a get_user_violation_count for the
\* row's actor with a cutoff before the row's timestamp counts the row exactly
\* once: the count is one more than it was before the call, and every later
\* count includes each stored row of the actor newer than its cutoff once.
C17_AppendVisibleToCounts ==
    /\ [][(dbcall'.op = "add_violation" /\ dbcall'.raised = None
              /\ nextId' # nextId) =>
             /\ Cardinality({r \in ledger' : r.id = dbcall'.result}) = 1
             /\ \A c \in -MaxLookback..MaxLedgerClock :
                   c < dbcall'.tick =>
                      get_user_violation_count(ledger', dbcall'.user_id,
                                               dbcall'.chat_id, c)
                        = get_user_violation_count(ledger, dbcall'.user_id,
                                                   dbcall'.chat_id, c) + 1
       ]_vars
    /\ [](dbcall.op = "get_user_violation_count" =>
            \A r \in ledger :
                (r.user_id = dbcall.user_id /\ r.chat_id = dbcall.chat_id
                    /\ r.tick > dbcall.cutoff) => dbcall.result >= 1)

\* Two rows of an actor stored one after the other and then counted as 2.
C17_Witness ==
    /\ dbcall.op = "get_user_violation_count"
    /\ dbcall.result = 2
    /\ Cardinality({r \in ledger : r.user_id = dbcall.user_id
                                   /\ r.chat_id = dbcall.chat_id}) = 2

\* C18 as claimed: add_violation stores every well-formed record and returns
\* a new id, also when a stored row has the same user_id, chat_id and
\* timestamp.
C18_AppendNeverRejects ==
    dbcall.op = "add_violation" =>
        /\ dbcall.raised = None
        /\ \E r \in ledger : r.id = dbcall.result

\* C19: whatever Database method or moderation step runs, a stored row keeps
\* every field but is_active, and is_active never goes from false to true.
C19_RowsImmutable ==
    [][\A r \in ledger : \A q \in Successors(r) :
          /\ [q EXCEPT !.is_active = r.is_active] = r
          /\ q.is_active => r.is_active
          /\ Cardinality(Successors(r)) = 1
      ]_vars

\* A ledger that went through an insert, a deactivation and a purge.
C19_Witness ==
    /\ dbcall.op = "cleanup_old_data"
    /\ dbcall.changed >= 1
    /\ \E r \in ledger : ~r.is_active
    /\ \E r \in ledger : r.is_active

\* C20: deactivate_old_violations sets is_active false on exactly the rows
\* stamped before its cutoff, leaves the other rows as they were, deletes
\* nothing, and applied again with the same cutoff changes nothing.
C20_DeactivateBeforeCutoff ==
    [][(dbcall'.op = "deactivate_old_violations"
              /\ (dbcall.op # "deactivate_old_violations" \/ dbcall' # dbcall)) =>
          /\ \A r \in ledger :
                [r EXCEPT !.is_active = r.is_active /\ ~(r.tick < dbcall'.cutoff)]
                    \in ledger'
          /\ Cardinality(ledger') = Cardinality(ledger)
          /\ {r.id : r \in ledger'} = {r.id : r \in ledger}
          /\ deactivate_old_violations(ledger', dbcall'.cutoff) = ledger'
      ]_vars

\* A deactivation turned a row inactive and left a row stamped at the cutoff
\* active.
C20_Witness ==
    /\ dbcall.op = "deactivate_old_violations"
    /\ dbcall.changed >= 1
    /\ \E r \in ledger : ~r.is_active /\ r.tick < dbcall.cutoff
    /\ \E r \in ledger : r.is_active /\ r.tick = dbcall.cutoff

\* ------------------------------------------- admin and cleanup claims
\* C22 as claimed: get_user_status changes neither the tracker (its keys,
\* its stored timestamps, the output of get_stats) nor the ledger.
C22_StatusReadOnly ==
    [][(last'.op = "status" /\ nextId' = nextId) =>
          /\ message_history' = message_history
          /\ get_stats(message_history') = get_stats(message_history)
          /\ ledger' = ledger
      ]_vars

\* C23: get_user_stats(user_id, chat_id) returns total_violations = the number
\* of all rows of the actor, whatever their type, age and is_active;
\* last_violation = the greatest timestamp among them, None when there are
\* none; is_currently_muted = TRUE iff a row of the actor is active and
\* stamped after now - 24 hours.
C23_UserStats ==
    dbcall.op = "get_user_stats" =>
        LET mine == {r \in ledger : r.user_id = dbcall.user_id
                                    /\ r.chat_id = dbcall.chat_id}
            stats == dbcall.result
        IN  /\ stats.total_violations = Cardinality(mine)
            /\ IF mine = {} THEN stats.last_violation = NoDatetime
               ELSE /\ \E r \in mine : r.tick = stats.last_violation
                    /\ \A r \in mine : r.tick <= stats.last_violation
            /\ stats.is_currently_muted <=>
                  \E r \in mine : r.is_active /\ r.tick > dbcall.at - recent_hours

\* Stats of an actor with a deactivated manual row and a newer active
\* rate_limit row, beside a row of another actor: total 2, muted.
C23_Witness ==
    /\ dbcall.op = "get_user_stats"
    /\ dbcall.result.total_violations = 2
    /\ dbcall.result.is_currently_muted
    /\ dbcall.result.last_violation = 1
    /\ \E r \in ledger : /\ r.user_id = dbcall.user_id /\ r.chat_id = dbcall.chat_id
                         /\ ~r.is_active /\ r.violation_type = "manual"
    /\ \E r \in ledger : /\ r.user_id = dbcall.user_id /\ r.chat_id = dbcall.chat_id
                         /\ r.is_active /\ r.violation_type = "rate_limit"
    /\ \E r \in ledger : r.user_id # dbcall.user_id

C21_DeactivateSparesLaterAppends ==
    (dbcall.op = "deactivate_old_violations" /\ dbcall.pc = "returned") =>
        \A id \in dbcall.deactivated : id < dbcall.began

\* C25: reset_user_history(actor) followed immediately by
\* get_message_count(actor) returns 0, for every actor and every tracker
\* state; reset_user_history of an actor with no stored history changes
\* nothing and returns normally.
C25_ResetThenCountIsZero ==
    /\ [](\A a \in TrackerActors :
            /\ get_message_count(
                   reset_user_history(message_history, a[1], a[2]),
                   a[1], a[2], now).result = 0
            /\ <<a[2], a[1]>> \notin DOMAIN message_history =>
                   reset_user_history(message_history, a[1], a[2]) = message_history)
    /\ [][(last.op = "reset" /\ last'.op = "count"
              /\ last'.user_id = last.user_id /\ last'.chat_id = last.chat_id) =>
             last'.result = 0
       ]_vars
    /\ [][(last'.op = "reset"
              /\ <<last'.chat_id, last'.user_id>> \notin DOMAIN message_history) =>
             message_history' = message_history /\ last'.result = None
       ]_vars

\* A count of 0 right after a reset that deleted two timestamps still inside
\* the window.
C25_Witness ==
    /\ last.op = "count"
    /\ last.after_reset
    /\ last.result = 0
    /\ now = 0
    /\ ncalls >= 2
    /\ message_history = (<<last.chat_id, last.user_id>> :> <<>>)

\* The timestamps of a stored list that a probe at time t counts.
InWindow(ts, t) == {i \in DOMAIN ts : ts[i] > t - antiflood_window_seconds}

\* C26: cleanup_old_entries never changes what a probe sees: for every actor
\* with a timestamp inside the window, get_message_count right after the
\* sweep equals the in-window count right before it; the sweep keeps every
\* timestamp less than 2 x window old.
C26_SweepKeepsCounts ==
    [][last'.op = "cleanup" =>
          /\ \A a \in TrackerActors :
                LET ts == HistoryOf(message_history, <<a[2], a[1]>>)
                IN  InWindow(ts, now) # {} =>
                       get_message_count(message_history', a[1], a[2], now).result
                          = Cardinality(InWindow(ts, now))
          /\ \A k \in DOMAIN message_history :
                \A i \in DOMAIN message_history[k] :
                    message_history[k][i] > now - antiflood_window_seconds * 2 =>
                        /\ k \in DOMAIN message_history'
                        /\ \E j \in DOMAIN message_history'[k] :
                              message_history'[k][j] = message_history[k][i]
      ]_vars

\* A sweep that dropped timestamps while another actor has a timestamp
\* inside the window.
C26_Witness ==
    /\ last.op = "cleanup"
    /\ last.dropped > 0
    /\ \E k \in DOMAIN message_history : InWindow(message_history[k], now) # {}

\* C27: right after cleanup_old_entries no stored timestamp is older than
\* 2 x window, every actor all of whose timestamps were older than 2 x window
\* is gone from the map, no remaining key maps to an empty list, and
\* get_message_count of an evicted actor returns 0.
C27_SweepEvicts ==
    [][last'.op = "cleanup" =>
          LET cutoff_time == now - antiflood_window_seconds * 2
          IN  /\ \A k \in DOMAIN message_history' :
                    /\ message_history'[k] # <<>>
                    /\ \A i \in DOMAIN message_history'[k] :
                          message_history'[k][i] >= cutoff_time
              /\ \A k \in DOMAIN message_history :
                    (\A i \in DOMAIN message_history[k] :
                         message_history[k][i] < cutoff_time)
                       => k \notin DOMAIN message_history'
              /\ \A a \in TrackerActors :
                    (<<a[2], a[1]>> \in DOMAIN message_history
                        /\ <<a[2], a[1]>> \notin DOMAIN message_history') =>
                       \A t \in now..MaxTime :
                          get_message_count(message_history', a[1], a[2], t).result = 0
      ]_vars

\* A sweep that evicted an actor with old timestamps and kept another.
C27_Witness ==
    /\ last.op = "cleanup"
    /\ last.evicted > 0
    /\ last.dropped > 0
    /\ DOMAIN message_history # {}

\* C28: check_rate_limit, get_message_count and reset_user_history of actor
\* (u, c) never change the stored list of another actor, nor the result of
\* that actor's next call, whether it shares the chat or the user; a call
\* returns True only on the caller's own count.
C28_ActorsIndependent ==
    [][last'.op \in {"check", "count", "reset"} =>
          /\ \A b \in IsolationActors :
                b # <<last'.user_id, last'.chat_id>> =>
                   /\ <<b[2], b[1]>> \in DOMAIN message_history'
                         <=> <<b[2], b[1]>> \in DOMAIN message_history
                   /\ HistoryOf(message_history', <<b[2], b[1]>>)
                         = HistoryOf(message_history, <<b[2], b[1]>>)
                   /\ \A t \in now..MaxIsolationClock :
                         /\ check_rate_limit(message_history', b[1], b[2], t).result
                              = check_rate_limit(message_history, b[1], b[2], t).result
                         /\ get_message_count(message_history', b[1], b[2], t).result
                              = get_message_count(message_history, b[1], b[2], t).result
          /\ (last'.op = "check" /\ last'.result = TRUE) =>
                Cardinality(InWindow(HistoryOf(message_history,
                                               <<last'.chat_id, last'.user_id>>), now))
                   >= antiflood_max_messages
      ]_vars

\* Actor (1, 1) trips the limit while (1, 2), same user in another chat,
\* has a stored message and stays under the limit.
C28_Witness ==
    /\ last.op = "check" /\ last.result = TRUE
    /\ last.user_id = 1 /\ last.chat_id = 1
    /\ <<2, 1>> \in DOMAIN message_history
    /\ Len(message_history[<<2, 1>>]) = 1
    /\ ~check_rate_limit(message_history, 1, 2, now).result

\* C29: manual_mute never changes the rate limiter's map; before it attempts
\* the restriction it has stored exactly one row, of type manual, active,
\* with the given duration; it returns action 'manual_mute' when the
\* restriction succeeds and 'manual_mute_failed' with the error text when it
\* fails, and then the stored row is still in the ledger.
C29_ManualMute ==
    /\ [](\A p \in Tasks : frame[p].op = "manual_mute" =>
            /\ (InApplyMute(p) \/ Attempted(p)) =>
                  /\ Recorded(p)
                  /\ frame[p].writes = 1
                  /\ \A r \in ledger : r.id = frame[p].violation_id =>
                        r.is_active /\ r.tick = frame[p].timestamp
            /\ (pc[p] = "done" /\ frame[p].mute = "ok") =>
                  /\ ret[p].action = "manual_mute"
                  /\ ret[p].user_id = frame[p].user_id
                  /\ ret[p].chat_id = frame[p].chat_id
                  /\ ret[p].violation_id = frame[p].violation_id
                  /\ ret[p].mute_duration_minutes = frame[p].duration
            /\ (pc[p] = "done" /\ Failed(p)) =>
                  /\ ret[p] = [action |-> "manual_mute_failed",
                               error |-> frame[p].mute]
                  /\ Recorded(p))
    /\ [][\A p \in Tasks :
            (restarts' = restarts /\ pc'[p] # pc[p]
                /\ (frame[p].op = "manual_mute" \/ frame'[p].op = "manual_mute")) =>
               /\ message_history' = message_history
               /\ ledger' # ledger => pc[p] = "insert"
               /\ Attempted(p)' /\ ~Attempted(p) => pc[p] = "restrict"
         ]_vars

\* One manual mute returned manual_mute and another manual_mute_failed with
\* the error text, each with its row stored, while the rate limiter tracks
\* an actor.
C29_Witness ==
    /\ message_history # <<>>
    /\ \E p, q \in Tasks :
          /\ pc[p] = "done" /\ frame[p].op = "manual_mute"
          /\ ret[p].action = "manual_mute" /\ Recorded(p)
          /\ pc[q] = "done" /\ frame[q].op = "manual_mute"
          /\ ret[q].action = "manual_mute_failed"
          /\ ret[q].error \in TelegramErrors /\ Recorded(q)

\* C30 as claimed: every unmute_user invocation stores or changes a row of
\* the ledger for its actor besides calling bot.restrict_chat_member.
C30_UnmuteWritesLedger ==
    \A p \in Tasks :
        (pc[p] = "done" /\ frame[p].op = "unmute_user") => frame[p].writes >= 1
\* C31: when db.add_violation fails for a triggering message, the escalation
\* of that message stops: bot.restrict_chat_member is not called, no
\* notification is made, the rate limiter's map stays as the message left it,
\* the exception reaches the caller with every lock released, and the task
\* goes on to the next update.
C31_LedgerWriteFailureStops ==
    /\ [](\A p \in Tasks :
            (frame[p].op = "handle_message" /\ frame[p].raised # None) =>
                /\ frame[p].writes = 0
                /\ ~Attempted(p)
                /\ frame[p].notified = 0
                /\ frame[p].delivered = {}
                /\ pc[p] \in {"release", "done"}
                /\ notifLock # p
                /\ pc[p] = "done" =>
                      /\ dbLock # p
                      /\ ret[p] = [action |-> "raise", error |-> frame[p].raised])
    /\ [][\A p \in Tasks :
            (frame[p].op = "handle_message" /\ frame'[p].op = "handle_message"
                /\ pc'[p] # pc[p] /\ frame'[p].raised # None) =>
               /\ message_history' = message_history
               /\ ledger' = ledger
         ]_vars
    /\ [][\A p \in Tasks :
            (frame[p].raised # None /\ pc[p] = "done" /\ pc'[p] # "done") =>
               pc'[p] = "idle" /\ frame'[p] = NoFrame
         ]_vars

\* The INSERT of an over-limit message was rejected and the exception left
\* handle_message; the actor's burst is still in the rate limiter's map.
C31_Witness ==
    \E p \in Tasks :
        /\ frame[p].op = "handle_message"
        /\ frame[p].raised # None
        /\ pc[p] = "done"
        /\ Len(HistoryOf(message_history, <<frame[p].chat_id, frame[p].user_id>>))
              > antiflood_max_messages
\* C32: whether the sends of _notify_admins_of_mute succeed or raise,
\* handle_message after a successful restriction returns the same 'mute'
\* action with the same row stored and the same rate limiter reset, no
\* exception leaves _notify_admins_of_mute, and a failed send does not stop
\* the sends to the remaining targets.
C32_NotifierNeverFailsMainPath ==
    /\ [](\A p \in Tasks :
            (frame[p].op = "handle_message" /\ frame[p].mute = "ok") =>
                /\ Recorded(p)
                /\ frame[p].raised = None
                /\ pc[p] = "done" =>
                      /\ ret[p] = MuteAction(frame[p])
                      /\ frame[p].pending = <<>>
                      /\ notifLock # p
                      /\ frame[p].delivered \subseteq
                            {NotificationTargets[i] : i \in DOMAIN NotificationTargets})
    /\ [][\A p \in Tasks :
            (pc[p] = "send" /\ restarts' = restarts
                /\ frame'[p].pending # frame[p].pending) =>
               /\ frame'[p].pending = Tail(frame[p].pending)
               /\ frame'[p].delivered \in
                     {frame[p].delivered,
                      frame[p].delivered \cup {Head(frame[p].pending)}}
               /\ message_history' = message_history
               /\ ledger' = ledger
               /\ IF Tail(frame[p].pending) = <<>>
                  THEN pc'[p] = "done" /\ ret'[p] = MuteAction(frame[p])
                  ELSE pc'[p] = "send"
         ]_vars

\* The send to the first admin raised, the send to the second was delivered
\* and handle_message returned the mute action.
C32_Witness ==
    \E p \in Tasks :
        /\ pc[p] = "done"
        /\ ret[p].action = "mute"
        /\ frame[p].delivered = {admin_ids[2]}
        /\ Recorded(p)
        /\ <<frame[p].chat_id, frame[p].user_id>> \notin DOMAIN message_history
\* C33 as claimed: a configuration with an empty ladder, a window of zero or
\* fewer seconds or a threshold of zero or fewer messages is never
\* constructed, so no rate limiter or escalation call runs with one.
C33_InvalidConfigRejected ==
    (policy.loaded \/ message_history # <<>> \/ policy.calls # {}) =>
        /\ policy.durations # <<>>
        /\ policy.antiflood_window_seconds > 0
        /\ policy.antiflood_max_messages > 0
\* C34: in every reachable state each actor's stored timestamps are in
\* non-decreasing order, the order they were appended in, and none is later
\* than the clock.
C34_TimestampsChronological ==
    /\ [](\A k \in DOMAIN message_history :
            /\ \A i, j \in DOMAIN message_history[k] :
                  i < j => message_history[k][i] <= message_history[k][j]
            /\ \A i \in DOMAIN message_history[k] : message_history[k][i] <= now)
    /\ [][(last'.op = "check" /\ ~is_exempt_from_rate_limit(last'.user_id)) =>
            LET ts == message_history'[<<last'.chat_id, last'.user_id>>]
            IN  ts[Len(ts)] = now
       ]_vars

\* An actor's list holds messages of two different clock values.
C34_Witness ==
    \E k \in DOMAIN message_history :
        /\ Len(message_history[k]) >= 3
        /\ message_history[k][1] < message_history[k][Len(message_history[k])]
\* C35 as claimed: in every reachable state no key of the rate limiter's map
\* holds an empty list, so tracked_users of get_stats counts only actors with
\* a buffered message.
C35_NoEmptyKeys ==
    /\ \A k \in DOMAIN message_history : message_history[k] # <<>>
    /\ get_stats(message_history).tracked_users
          = Cardinality({k \in DOMAIN message_history : message_history[k] # <<>>})
\* C36: under fair scheduling every handle_message invocation reaches its
\* end: None for a message under the limit or of an exempt user, the mute
\* action after reset and notification, None after a failed restriction (or
\* the exception of a failed write); no task holds the database lock and the
\* notification lock together, and neither is held outside its own block.
C36_HandlersTerminate ==
    /\ \A p \in Tasks : (pc[p] # "idle") ~> (pc[p] = "done")
    /\ (dbcall.op = "deactivate_old_violations")
          ~> (dbcall.op = "deactivate_old_violations" /\ dbcall.pc = "returned")
    /\ [](\A p \in Tasks :
            /\ ~(dbLock = p /\ notifLock = p)
            /\ dbLock = p => pc[p] \in {"insert", "release"}
            /\ notifLock = p => pc[p] = "send"
            /\ pc[p] \in {"insert", "release"} => dbLock = p
            /\ pc[p] = "send" => notifLock = p
            /\ pc[p] = "done" =>
                  \/ ret[p] = ReturnNone /\ (~frame[p].exceeded \/ Failed(p))
                  \/ ret[p].action = "mute" /\ frame[p].mute = "ok"
                  \/ ret[p].action = "raise" /\ frame[p].raised # None)
    /\ [](dbLock = CleanupTask =>
            dbcall.op = "deactivate_old_violations" /\ dbcall.pc = "update")

\* Both tasks finished an over-limit message, one muted and one with a
\* failed restriction, after a deactivation ran beside them.
C36_Witness ==
    /\ dbcall.op = "deactivate_old_violations"
    /\ \E p, q \in Tasks :
          /\ pc[p] = "done" /\ ret[p].action = "mute"
          /\ pc[q] = "done" /\ Failed(q)

\* C37 as claimed: two concurrent handle_message invocations of one actor
\* never both have their rate_limit row in the ledger while neither has
\* reached a restriction, hence while no reset of the actor has happened
\* since the first of the two appends.  No other escalation was started and
\* no restriction has failed.
C37_OneBurstOneEscalation ==
    \A p, q \in Tasks :
        (/\ p # q
         /\ restarts = 0 /\ started = 2
         /\ frame[p].op = "handle_message" /\ frame[q].op = "handle_message"
         /\ frame[p].user_id = frame[q].user_id
         /\ frame[p].chat_id = frame[q].chat_id
         /\ ~Attempted(p) /\ ~Attempted(q))
        => ~(/\ frame[p].writes = 1 /\ Recorded(p)
             /\ frame[q].writes = 1 /\ Recorded(q))
\* C38 as claimed: two handle_message invocations of one actor whose
\* rate_limit rows are both in the ledger, all of the actor's rows being
\* rate_limit rows inside the lookback of both, were not created from the
\* same violation count.
C38_OrdinalsDistinct ==
    \A p, q \in Tasks :
        LET mine == {r \in ledger : r.user_id = frame[p].user_id
                                    /\ r.chat_id = frame[p].chat_id}
        IN  (/\ p # q
             /\ restarts = 0
             /\ frame[p].op = "handle_message" /\ frame[q].op = "handle_message"
             /\ frame[p].user_id = frame[q].user_id
             /\ frame[p].chat_id = frame[q].chat_id
             /\ frame[p].writes = 1 /\ Recorded(p)
             /\ frame[q].writes = 1 /\ Recorded(q)
             /\ \A r \in mine : r.violation_type = "rate_limit"
             /\ \A t \in {p, q} :
                   get_user_violation_count(ledger, frame[p].user_id, frame[p].chat_id,
                                            frame[t].cutoff) = Cardinality(mine))
            => /\ frame[p].violation_count # frame[q].violation_count
               /\ frame[p].violation_id # frame[q].violation_id

\* handle_message's use of the count: the count of every actor for cutoff c,
\* and the duration of the violation after it, agree on the two ledgers.
SameEscalation(rows, after, c) ==
    \A a \in LedgerActors :
        LET before == get_user_violation_count(rows, a[1], a[2], c)
            behind == get_user_violation_count(after, a[1], a[2], c)
        IN  /\ behind = before
            /\ get_mute_duration(escalation_durations, behind + 1)
                  = get_mute_duration(escalation_durations, before + 1)

\* C39: deactivate_old_violations, whatever its cutoff, and cleanup_old_data
\* with a cutoff not later than the cutoff of the count leave
\* get_user_violation_count of every actor, and with it the duration of the
\* next violation, as they were, for every lookback of the count.
C39_MaintenanceKeepsEscalation ==
    [][ledger' # ledger =>
         /\ (dbcall'.op = "deactivate_old_violations"
              => \A d \in Lookbacks : SameEscalation(ledger, ledger', now - d))
         /\ (dbcall'.op = "cleanup_old_data"
              => \A d \in Lookbacks :
                    dbcall'.cutoff <= now - d
                        => SameEscalation(ledger, ledger', now - d))]_vars

\* A purge that deleted a deactivated row while an actor still has a row
\* inside the lookback that starts at the purge's cutoff.
C39_Witness ==
    /\ dbcall.op = "cleanup_old_data"
    /\ dbcall.changed >= 1
    /\ \E a \in LedgerActors :
          get_user_violation_count(ledger, a[1], a[2], dbcall.cutoff) >= 1

\* C40: after a failed restriction of a handle_message invocation the next
\* message of the same actor, while the messages sent so far are inside the
\* window, is reported as exceeded again; and when that next invocation
\* counts, the failed invocation's row being the actor's newest and the rows
\* before it those the failed invocation counted, it finds one violation more
\* and builds its row from the next rung of the ladder.
C40_FailedActuationEscalatesAgain ==
    [][\A p, q \in Tasks :
          (/\ p # q
           /\ pc[p] = "done" /\ frame[p].op = "handle_message" /\ Failed(p)
           /\ frame'[q].op = "handle_message"
           /\ frame'[q].user_id = frame[p].user_id
           /\ frame'[q].chat_id = frame[p].chat_id)
          =>
          /\ (/\ pc[q] = "idle"
              /\ restarts = 0 /\ started = 1
              /\ now < antiflood_window_seconds)
             => /\ frame'[q].exceeded
                /\ pc'[q] = "count"
                /\ ledger' = ledger
          /\ (/\ pc[q] = "count" /\ pc'[q] # "count"
              /\ Recorded(p)
              /\ \A r \in ledger :
                    (r.user_id = frame[p].user_id /\ r.chat_id = frame[p].chat_id)
                        => r.id <= frame[p].violation_id
              /\ Cardinality({r \in RecentRows(ledger, frame[p].user_id,
                                               frame[p].chat_id, frame[q].cutoff) :
                                  r.id # frame[p].violation_id})
                    = frame[p].violation_count
              /\ \E r \in ledger : r.id = frame[p].violation_id
                                     /\ r.tick > frame[q].cutoff)
             => /\ frame'[q].violation_count = frame[p].violation_count + 1
                /\ frame'[q].duration = Rung(frame[p].violation_count + 2)
                /\ ~Attempted(q)'
      ]_vars

\* Two over-limit messages of one actor, both restrictions failed: two
\* rate_limit rows from the first and the second rung, the burst still in
\* the rate limiter's map.
C40_Witness ==
    \E p, q \in Tasks :
        /\ p # q
        /\ frame[p].op = "handle_message" /\ frame[q].op = "handle_message"
        /\ frame[p].user_id = frame[q].user_id /\ frame[p].chat_id = frame[q].chat_id
        /\ pc[p] = "done" /\ Failed(p) /\ Recorded(p)
        /\ pc[q] = "done" /\ Failed(q) /\ Recorded(q)
        /\ frame[p].violation_count = 0 /\ frame[p].duration = Rung(1)
        /\ frame[q].violation_count = 1 /\ frame[q].duration = Rung(2)
        /\ Rung(2) # Rung(1)
        /\ Cardinality({r \in ledger : r.user_id = frame[p].user_id
                                       /\ r.chat_id = frame[p].chat_id
                                       /\ r.violation_type = "rate_limit"}) = 2
        /\ Len(HistoryOf(message_history, <<frame[p].chat_id, frame[p].user_id>>))
              > antiflood_max_messages
====
